---- MODULE Spec2Model ----
(***************************************************************************)
(* A model of the SQL request pipeline of sql2api: the query builder, the  *)
(* execution engine (single read, single write, batch with and without a   *)
(* transaction) and the service layer that turns engine results into       *)
(* response envelopes.                                                     *)
(*                                                                         *)
(* SQL text is modelled as a sequence of tokens.  A Go map is a function;  *)
(* ranging over a Go map visits its keys in an unspecified order, so every *)
(* operator that ranges over a map takes the order of the visit as an      *)
(* argument and the actions choose it with \E.                             *)
(***************************************************************************)
EXTENDS Integers, Sequences, FiniteSets, TLC

VARIABLES
    dbType,     \* QueryBuilder.dbType / SQLEngine.dbType
    bq,         \* the structured query handed to the builder
    built,      \* what BuildStructuredQuery returned for bq
    bparams,    \* the params map handed to convertParams
    bargs,      \* the args slice convertParams returned
    dberr,      \* the text of the error given to MapError, word by word
    mapped,     \* the SQLError MapError returned
    vq,         \* the statement given to SecurityValidator.ValidateQuery
    verdict,    \* what ValidateQuery returned for vq
    now,        \* what time.Now() returns
    timer,      \* the attempt whose deadline is followed: its phase, the time
                \* it entered the engine, the deadline of its context
    sani,       \* two statements and the previews sanitizeSQL made of them
    mon,        \* the attempts inside StartQuery and the query ids allocated
    cfg,        \* SQLEngine.config, the SQLConfig the service was made with
    db,         \* the committed effects: i >= 1 for operation i of the
                \* request in hand, 0 for what earlier requests committed
    dbBefore,   \* db when the request in hand arrived
    tx,         \* the transaction of the batch in hand: "none", "open",
                \* "committed", "rolled_back", "commit_failed"
    txPending,  \* the effects made inside the open transaction
    pc,         \* "idle", the position inside the engine's batch loop, or
                \* "done" when the response is ready
    idx,        \* the 1-based position of the batch loop
    cur,        \* the request in hand
    queries,    \* the statements the service handed to the engine
    results,    \* BatchResult.Results: affected rows per executed operation
    driverLog,  \* the calls made on the database handle for the request
    monLog,     \* the calls made on the performance monitor for the request
    resp        \* the response envelope returned for the request

tvars == <<now, timer, sani, mon>>

bvars == <<dbType, bq, built, bparams, bargs, dberr, mapped, vq, verdict, tvars>>

evars == <<cfg, db, dbBefore, tx, txPending, pc, idx, cur, queries, results,
           driverLog, monLog, resp>>

vars == <<bvars, evars>>

----------------------------------------------------------------------------
(* Strings and tokens *)

\* strings.ToLower on the words the model uses
LowerPairs ==
    {
      <<"SELECT", "select">>, <<"INSERT", "insert">>, <<"UPDATE", "update">>,
      <<"DELETE", "delete">>, <<"Update", "update">>, <<"Select", "select">>,
      <<"WITH", "with">>, <<"FROM", "from">>, <<"WHERE", "where">>,
      <<"INTO", "into">>, <<"VALUES", "values">>, <<"SET", "set">>,
      <<"AND", "and">>, <<"OR", "or">>, <<"JOIN", "join">>,
      <<"AS", "as">>, <<"ORDER", "order">>, <<"BY", "by">>,
      <<"GROUP", "group">>, <<"HAVING", "having">>, <<"LIMIT", "limit">>,
      <<"OFFSET", "offset">>, <<"DESC", "desc">>, <<"ASC", "asc">>,
      <<"FETCH", "fetch">>, <<"FIRST", "first">>, <<"NEXT", "next">>,
      <<"ROWS", "rows">>, <<"ONLY", "only">>, <<"UNION", "union">>,
      <<"DROP", "drop">>, <<"TABLE", "table">>, <<"CROSS", "cross">>,
      <<"Permission", "permission">>, <<"Duplicate", "duplicate">>,
      <<"ORA-00942", "ora-00942">> }

ToLower(s) ==
    IF \E q \in LowerPairs : q[1] = s
    THEN (CHOOSE q \in LowerPairs : q[1] = s)[2]
    ELSE s

\* strings.ToUpper on the words the model uses
ToUpper(s) ==
    CASE s = "desc" -> "DESC"
      [] s = "asc"  -> "ASC"
      [] OTHER      -> s

\* A token of SQL text.  kw: a keyword, id: an identifier, num: a number,
\* ph: a placeholder, op: an operator written between blanks ("=", "*"),
\* p: punctuation written without a blank on one side: "(" sticks to the
\* token after it, ")" "," ";" stick to the token before them.
Kw(s)  == [k |-> "kw",  s |-> s,  n |-> 0]
Id(s)  == [k |-> "id",  s |-> s,  n |-> 0]
Op(s)  == [k |-> "op",  s |-> s,  n |-> 0]
P(s)   == [k |-> "p",   s |-> s,  n |-> 0]
Num(n) == [k |-> "num", s |-> "", n |-> n]

\* every enumeration of the set S without repetition: the orders in which a
\* range over a map with key set S can visit the keys
Perms(S) ==
    {s \in [1..Cardinality(S) -> S] :
        \A i, j \in 1..Cardinality(S) : i # j => s[i] # s[j]}

\* strings.Join(parts, sep) with every part and the separator a token sequence
RECURSIVE Join(_, _)
Join(parts, sep) ==
    IF Len(parts) = 0 THEN <<>>
    ELSE IF Len(parts) = 1 THEN parts[1]
    ELSE parts[1] \o sep \o Join(Tail(parts), sep)

\* for k, v := range src { dst[k] = v }
Merge(dst, src) ==
    [k \in (DOMAIN dst) \cup (DOMAIN src) |->
        IF k \in DOMAIN src THEN src[k] ELSE dst[k]]

NoParams == [k \in {} |-> 0]

----------------------------------------------------------------------------
(* Query builder: src/internal/sql/builder.go *)

\* the placeholder token: "$<index>" for postgres, ":param_<index>" for oracle
getParameterPlaceholder(dbt, index) ==
    CASE dbt = "postgres" -> [k |-> "ph", s |-> "$",       n |-> index]
      [] dbt = "oracle"   -> [k |-> "ph", s |-> ":param_", n |-> index]
      [] OTHER            -> [k |-> "ph", s |-> "?",       n |-> 0]

\* GetLimitQuery of the dialect CreateDialect(dbType) returns
GetLimitQuery(dbt, limit) ==
    IF ToLower(dbt) = "oracle"
    THEN <<Kw("FETCH"), Kw("FIRST"), Num(limit), Kw("ROWS"), Kw("ONLY")>>
    ELSE <<Kw("LIMIT"), Num(limit)>>

BuildOk(sql, params) == [sql |-> sql, params |-> params, err |-> ""]
BuildErr(msg)        == [sql |-> <<>>, params |-> NoParams, err |-> msg]

\* buildWhereClause: order is the order in which the range visits conditions
buildWhereClause(dbt, conditions, startIndex, order) ==
    IF Cardinality(DOMAIN conditions) = 0
    THEN [clause |-> <<>>, params |-> NoParams]
    ELSE [clause |->
            Join([i \in 1..Len(order) |->
                    <<Id(order[i]), Op("="),
                      getParameterPlaceholder(dbt, startIndex + i - 1)>>],
                 <<Kw("AND")>>),
          params |->
            [p \in startIndex..(startIndex + Len(order) - 1) |->
                conditions[order[p - startIndex + 1]]]]

\* the " ORDER BY f d, ..." list of buildSelectQuery
orderClauses(orderBy) ==
    Join([i \in 1..Len(orderBy) |->
            <<Id(orderBy[i].field),
              Kw(IF ToUpper(orderBy[i].order) = "DESC" THEN "DESC" ELSE "ASC")>>],
         <<P(",")>>)

buildSelectQuery(dbt, query, wo, ho) ==
    LET head == <<Kw("SELECT")>>
                \o (IF Len(query.fields) > 0
                    THEN Join([i \in 1..Len(query.fields) |-> <<Id(query.fields[i])>>],
                              <<P(",")>>)
                    ELSE <<Op("*")>>)
                \o <<Kw("FROM"), Id(query.table)>>
        w  == buildWhereClause(dbt, query.where, 1, wo)
        hasW == Cardinality(DOMAIN query.where) > 0
        paramIndex == IF hasW THEN 1 + Cardinality(DOMAIN w.params) ELSE 1
        h  == buildWhereClause(dbt, query.having, paramIndex, ho)
        hasH == Cardinality(DOMAIN query.having) > 0
        sql == head
               \o (IF hasW THEN <<Kw("WHERE")>> \o w.clause ELSE <<>>)
               \o (IF Len(query.group_by) > 0
                   THEN <<Kw("GROUP"), Kw("BY")>>
                        \o Join([i \in 1..Len(query.group_by) |-> <<Id(query.group_by[i])>>],
                                <<P(",")>>)
                   ELSE <<>>)
               \o (IF hasH THEN <<Kw("HAVING")>> \o h.clause ELSE <<>>)
               \o (IF Len(query.order_by) > 0
                   THEN <<Kw("ORDER"), Kw("BY")>> \o orderClauses(query.order_by)
                   ELSE <<>>)
               \o (IF query.limit > 0 THEN GetLimitQuery(dbt, query.limit) ELSE <<>>)
        params == Merge(IF hasW THEN w.params ELSE NoParams,
                        IF hasH THEN h.params ELSE NoParams)
    IN  BuildOk(sql, params)

buildInsertQuery(dbt, query, do) ==
    IF Cardinality(DOMAIN query.data) = 0
    THEN BuildErr("no data provided for insert")
    ELSE BuildOk(
            <<Kw("INSERT"), Kw("INTO"), Id(query.table), P("(")>>
            \o Join([i \in 1..Len(do) |-> <<Id(do[i])>>], <<P(",")>>)
            \o <<P(")"), Kw("VALUES"), P("(")>>
            \o Join([i \in 1..Len(do) |-> <<getParameterPlaceholder(dbt, i)>>],
                    <<P(",")>>)
            \o <<P(")")>>,
            [p \in 1..Len(do) |-> query.data[do[p]]])

\* a builder whose WHERE clause restarts the numbering, as buildDeleteQuery does
updateWhereStart_FromOne(nData) == 1

\* the index buildUpdateQuery hands to buildWhereClause: paramIndex after SET
updateWhereStart(nData) == nData + 1

buildUpdateQuery(dbt, query, do, wo) ==
    IF Cardinality(DOMAIN query.data) = 0
    THEN BuildErr("no data provided for update")
    ELSE LET setClauses ==
                Join([i \in 1..Len(do) |->
                        <<Id(do[i]), Op("="), getParameterPlaceholder(dbt, i)>>],
                     <<P(",")>>)
             setParams == [p \in 1..Len(do) |-> query.data[do[p]]]
             hasW == Cardinality(DOMAIN query.where) > 0
             w == buildWhereClause(dbt, query.where, updateWhereStart(Len(do)), wo)
         IN  BuildOk(
                <<Kw("UPDATE"), Id(query.table), Kw("SET")>> \o setClauses
                \o (IF hasW THEN <<Kw("WHERE")>> \o w.clause ELSE <<>>),
                Merge(setParams, IF hasW THEN w.params ELSE NoParams))

\* a delete builder that emits DELETE FROM <table> for an empty where
buildDeleteQuery_NoWhereCheck(dbt, query, wo) ==
    LET w == buildWhereClause(dbt, query.where, 1, wo)
    IN  BuildOk(<<Kw("DELETE"), Kw("FROM"), Id(query.table)>>
                \o (IF Cardinality(DOMAIN query.where) > 0
                    THEN <<Kw("WHERE")>> \o w.clause ELSE <<>>),
                w.params)

buildDeleteQuery(dbt, query, wo) ==
    IF Cardinality(DOMAIN query.where) > 0
    THEN LET w == buildWhereClause(dbt, query.where, 1, wo)
         IN  BuildOk(<<Kw("DELETE"), Kw("FROM"), Id(query.table), Kw("WHERE")>>
                     \o w.clause,
                     w.params)
    ELSE BuildErr("WHERE clause is required for DELETE operation")

\* do, wo, ho: the orders in which the ranges over data, where and having run
BuildStructuredQuery(dbt, query, do, wo, ho) ==
    CASE ToLower(query.action) = "select" -> buildSelectQuery(dbt, query, wo, ho)
      [] ToLower(query.action) = "insert" -> buildInsertQuery(dbt, query, do)
      [] ToLower(query.action) = "update" -> buildUpdateQuery(dbt, query, do, wo)
      [] ToLower(query.action) = "delete" -> buildDeleteQuery(dbt, query, wo)
      [] OTHER -> BuildErr("unsupported action")

----------------------------------------------------------------------------
(* Text helpers over token sequences *)

\* strings.Contains(word, sub) for a lower-cased word of the model's
\* vocabulary and a pattern that is not the whole word
SubstringPairs ==
    { <<"created_at", "create">>, <<"pg_sleep", "pg_">>, <<"pg_sleep", "sleep">>,
      <<"pg_tables", "pg_">>, <<"order", "or">>, <<"users", "user">>,
      <<"sysdate", "sys">>, <<"executions", "exec">> }

HasSub(word, sub) == word = sub \/ <<word, sub>> \in SubstringPairs

\* the lower-cased text of a token; placeholders and numbers are not words
Lower(t) == IF t.k \in {"kw", "id"} THEN ToLower(t.s) ELSE ""

IsWordTok(t) == t.k \in {"kw", "id", "num"}

\* strings.Fields(query): the blank-separated words.  core is the word with
\* the punctuation "(),;" trimmed, bare says the word carries no punctuation.
RECURSIVE WordsFrom(_, _, _, _)
WordsFrom(sql, i, open, acc) ==
    IF i > Len(sql) THEN acc
    ELSE LET t == sql[i]
         IN  IF t.k = "p" /\ t.s = "("
             THEN WordsFrom(sql, i + 1, TRUE, acc)
             ELSE IF t.k = "p"
             THEN WordsFrom(sql, i + 1, FALSE,
                    IF Len(acc) = 0 THEN acc
                    ELSE [acc EXCEPT ![Len(acc)].bare = FALSE])
             ELSE WordsFrom(sql, i + 1, FALSE,
                    Append(acc, [core |-> Lower(t), k |-> t.k, bare |-> ~open]))

Fields(sql) == WordsFrom(sql, 1, FALSE, <<>>)

\* the tokens at which some token of the statement satisfies Test
AnyTok(sql, Test(_)) == \E i \in 1..Len(sql) : Test(sql[i])

----------------------------------------------------------------------------
(* Errors: a Go error chain is the sequence of its message parts, outermost *)
(* first; err.Error() is their concatenation                                 *)

NoErr == <<>>
IsErr(e) == Len(e) > 0
Wrap(msg, e) == <<msg>> \o e

\* the substrings handleExecutionError and handleBatchExecutionError look
\* for, in the message parts the model produces
PartContains ==
    { <<"failed to begin transaction", "transaction">>,
      <<"failed to commit transaction", "transaction">>,
      <<"current transaction is aborted", "transaction">>,
      <<"table access denied", "access denied">>,
      <<"invalid parameter", "invalid">>,
      <<"invalid SQL structure", "invalid">>,
      <<"syntax validation failed", "syntax">>,
      <<"connection refused", "connection">>,
      <<"connection refused", "connect">>,
      <<"context deadline exceeded", "context deadline exceeded">>,
      <<"result set too large", "result set too large">> }

\* contains(errMsg, substr) of the service
contains(errMsg, substr) ==
    \E i \in 1..Len(errMsg) : errMsg[i] = substr \/ <<errMsg[i], substr>> \in PartContains

----------------------------------------------------------------------------
(* Security validator: src/unnamed/part_007 *)

dangerousKeywords ==
    {"drop", "truncate", "alter", "create", "grant", "revoke", "exec", "execute",
     "sp_", "xp_", "fn_", "information_schema", "pg_", "mysql", "sys", "master",
     "msdb", "tempdb"}

\* isKeyword of the security validator
isKeyword(word) ==
    word \in {"select", "from", "where", "and", "or", "order", "by", "group",
              "having", "limit", "offset", "join", "inner", "left", "right",
              "full", "outer", "on", "as", "distinct", "count", "sum", "avg",
              "max", "min"}

\* checkSQLInjection: the regular expressions of initSQLInjectionPatterns,
\* read on tokens
checkSQLInjection(sql) ==
    LET n == Len(sql)
        unionSelect ==
            \E i \in 1..(n - 1) : Lower(sql[i]) = "union" /\ Lower(sql[i + 1]) = "select"
        boolEq ==
            \E i \in 1..(n - 3) :
                /\ Lower(sql[i]) \in {"or", "and"}
                /\ IsWordTok(sql[i + 1])
                /\ sql[i + 2].k = "op" /\ sql[i + 2].s = "="
                /\ IsWordTok(sql[i + 3])
        ddl ==
            \E i \in 2..(n - 1) : Lower(sql[i]) \in {"drop", "create", "alter", "truncate"}
        substr ==
            \E i \in 1..n : \E pat \in {"exec", "execute", "sp_", "xp_", "script",
                                         "javascript", "vbscript",
                                         "information_schema", "pg_"} :
                HasSub(Lower(sql[i]), pat)
    IN  IF unionSelect \/ boolEq \/ ddl \/ substr
        THEN <<"potential SQL injection pattern detected">>
        ELSE NoErr

\* checkDangerousKeywords on the lower-cased statement
checkDangerousKeywords(sql) ==
    IF \E i \in 1..Len(sql) : \E kw \in dangerousKeywords : HasSub(Lower(sql[i]), kw)
    THEN <<"dangerous keyword not allowed">>
    ELSE NoErr

\* the words extractSQLAction examines of a statement that starts with
\* "with": the loop leaves after the word at index 11
WithScanWords == 12

\* extractSQLAction
extractSQLAction(sql) ==
    LET words == Fields(sql)
        isAct(i) == words[i].bare /\ words[i].core \in {"select", "insert", "update", "delete"}
        scan == {i \in 1..Len(words) : i <= WithScanWords /\ isAct(i)}
    IN  IF Len(words) = 0 THEN ""
        ELSE IF ~words[1].bare THEN "?"
        ELSE IF words[1].core = "with"
             THEN IF scan = {} THEN "select"
                  ELSE words[CHOOSE i \in scan : \A j \in scan : i <= j].core
        ELSE words[1].core

\* checkActionPermission
checkActionPermission(allowedActions, sql) ==
    LET action == extractSQLAction(sql)
    IN  IF action = "" THEN <<"unable to determine SQL action">>
        ELSE IF action \notin allowedActions THEN <<"action is not allowed", action>>
        ELSE NoErr

\* extractTableNames: the sequence of table names, in the order they occur
extractTableNames(sql) ==
    LET words == Fields(sql)
        hit(i) == /\ words[i].bare
                  /\ words[i].core \in {"from", "join", "into", "update"}
                  /\ i + 1 <= Len(words)
                  /\ words[i + 1].core # ""
                  /\ ~isKeyword(words[i + 1].core)
        at == SelectSeq([i \in 1..Len(words) |-> i], hit)
    IN  [j \in 1..Len(at) |-> words[at[j] + 1].core]

\* checkTablePermission
checkTablePermission(allowedTables, sql) ==
    LET tables == extractTableNames(sql)
        bad == {j \in 1..Len(tables) : tables[j] \notin allowedTables}
    IN  IF Len(tables) = 0 THEN <<"no tables found in query">>
        ELSE IF bad # {}
             THEN <<"access to table is not allowed",
                    tables[CHOOSE j \in bad : \A l \in bad : j <= l]>>
        ELSE NoErr

\* A parameter value is a Go number or a Go string.  Numbers stand for
\* themselves; a string value is written as a negative number, and
\* StringValues gives the text each of them stands for.
StringValues == (-1 :> "o'brien") @@ (-2 :> "plain text")

IsString(value) == value \in DOMAIN StringValues

\* containsSQLInjection: the texts of StringValues that hold one of the
\* fragments of the list  ', ", ;, --, /*, */, union, select, ...
containsSQLInjection(str) == str \in {"o'brien"}

\* validateParameterValue; the keys param_<i> are never empty and no text of
\* StringValues is longer than 10000 characters
validateParameterValue(key, value) ==
    IF IsString(value) /\ containsSQLInjection(StringValues[value])
    THEN <<"parameter contains potential SQL injection">>
    ELSE NoErr

MaxParamCount == 100

\* validateParameters.  The range over the map stops at the first value that
\* is refused; the sample maps hold at most one string value, so that every
\* order of the range names the same key.
validateParameters(params) ==
    LET bad == {k \in DOMAIN params : IsErr(validateParameterValue(k, params[k]))}
    IN  IF Cardinality(DOMAIN params) > MaxParamCount
        THEN <<"too many parameters (max: 100)">>
        ELSE IF bad # {}
             THEN LET k == CHOOSE k \in bad : TRUE
                  IN  <<"invalid parameter", ToString(k)>>
                      \o validateParameterValue(k, params[k])
        ELSE NoErr

\* SecurityValidator.ValidateQuery
ValidateQuery(c, sql, params) ==
    LET injection == checkSQLInjection(sql)
        keywords  == checkDangerousKeywords(sql)
        action    == checkActionPermission(c.AllowedActions, sql)
        tables    == checkTablePermission(c.AllowedTables, sql)
        values    == validateParameters(params)
    IN  IF Len(sql) = 0 THEN <<"query cannot be empty">>
        ELSE IF IsErr(injection) THEN Wrap("SQL injection detected", injection)
        ELSE IF IsErr(keywords) THEN Wrap("dangerous keywords detected", keywords)
        ELSE IF IsErr(action) THEN Wrap("action not allowed", action)
        ELSE IF IsErr(tables) THEN Wrap("table access denied", tables)
        ELSE IF IsErr(values) THEN Wrap("parameter validation failed", values)
        ELSE NoErr

\* IsSelectQuery: strings.HasPrefix(lower-cased statement, "select")
IsSelectQuery(sql) ==
    Len(sql) > 0 /\ sql[1].k \in {"kw", "id"} /\ Lower(sql[1]) = "select"

----------------------------------------------------------------------------
(* Structure validator: src/internal/sql/validator.go *)

maxComplexity == 100

allowedFunctions ==
    {"count", "sum", "avg", "max", "min", "upper", "lower", "trim", "length",
     "substr", "substring", "concat", "replace", "like", "abs", "round", "ceil",
     "floor", "mod", "now", "current_date", "current_time", "current_timestamp",
     "date", "time", "year", "month", "day", "case", "when", "then", "else",
     "end", "coalesce", "nullif", "isnull", "ifnull"}

\* isSQLKeyword of the structure validator
isSQLKeyword(word) ==
    word \in {"select", "from", "where", "and", "or", "order", "by", "group",
              "having", "limit", "offset", "join", "inner", "left", "right",
              "full", "outer", "on", "as", "distinct", "union", "all", "exists",
              "in", "not", "is", "null", "like", "between", "case", "when",
              "then", "else", "end", "with"}

\* strings.Count(lowerQuery, sub) for a one-word pattern
CountSub(sql, sub) == Cardinality({i \in 1..Len(sql) : HasSub(Lower(sql[i]), sub)})

\* strings.Count(lowerQuery, "a b") for a two-word pattern
CountPhrase(sql, a, b) ==
    Cardinality({i \in 1..(Len(sql) - 1) : Lower(sql[i]) = a /\ Lower(sql[i + 1]) = b})

\* the tokens followed at once by "(": the matches of (\w+)\s*\(
CallsAt(sql) ==
    {i \in 1..(Len(sql) - 1) :
        IsWordTok(sql[i]) /\ sql[i + 1].k = "p" /\ sql[i + 1].s = "("}

CountCall(sql, f) == Cardinality({i \in CallsAt(sql) : Lower(sql[i]) = f})

calculateQueryComplexity(sql) ==
    1 + CountSub(sql, "join") * 5
      + CountPhrase(sql, "left", "join") * 3 + CountPhrase(sql, "right", "join") * 3
      + CountPhrase(sql, "inner", "join") * 3 + CountPhrase(sql, "outer", "join") * 4
      + CountSub(sql, "select") * 3
      + CountSub(sql, "where") * 2 + CountSub(sql, "and") * 1 + CountSub(sql, "or") * 2
      + CountPhrase(sql, "group", "by") * 3 + CountPhrase(sql, "order", "by") * 2
      + CountSub(sql, "having") * 3
      + (CountCall(sql, "count") + CountCall(sql, "sum") + CountCall(sql, "avg")
         + CountCall(sql, "max") + CountCall(sql, "min")) * 2
      + CountSub(sql, "union") * 5 + CountSub(sql, "with") * 4

\* checkForbiddenPatterns: the regular expressions of initForbiddenPatterns
checkForbiddenPatterns(sql) ==
    LET call == \E i \in CallsAt(sql) :
                    \E f \in {"benchmark", "sleep", "waitfor", "delay", "char",
                              "ascii", "hex", "unhex", "bin", "oct", "concat_ws",
                              "group_concat", "string_agg"} : HasSub(Lower(sql[i]), f)
        file == \/ \E i \in 1..Len(sql) : HasSub(Lower(sql[i]), "load_file")
                \/ CountPhrase(sql, "into", "outfile") > 0
                \/ CountPhrase(sql, "into", "dumpfile") > 0
        bits == \E i \in 1..Len(sql) :
                    sql[i].k = "op" /\ sql[i].s \in {"||", "&&", "<<", ">>", "@@"}
    IN  IF call \/ file \/ bits THEN <<"query contains forbidden pattern">> ELSE NoErr

\* extractFunctions and validateFunctions
validateFunctions(sql) ==
    LET bad == {i \in CallsAt(sql) :
                    LET f == IF sql[i].k = "num" THEN "0" ELSE Lower(sql[i])
                    IN  ~isSQLKeyword(f) /\ f \notin allowedFunctions}
    IN  IF bad # {}
        THEN <<"function is not allowed",
               Lower(sql[CHOOSE i \in bad : \A j \in bad : i <= j])>>
        ELSE NoErr

\* checkParenthesesBalance
RECURSIVE parenDepth(_, _, _)
parenDepth(sql, i, count) ==
    IF i > Len(sql) THEN count
    ELSE IF sql[i].k = "p" /\ sql[i].s = "(" THEN parenDepth(sql, i + 1, count + 1)
    ELSE IF sql[i].k = "p" /\ sql[i].s = ")"
         THEN IF count - 1 < 0 THEN -1 ELSE parenDepth(sql, i + 1, count - 1)
    ELSE parenDepth(sql, i + 1, count)

checkParenthesesBalance(sql) ==
    LET d == parenDepth(sql, 1, 0)
    IN  IF d < 0 THEN <<"unmatched closing parenthesis">>
        ELSE IF d # 0 THEN <<"unmatched opening parenthesis">>
        ELSE NoErr

\* isSimpleExpressionQuery: SELECT <number>, SELECT NOW(), SELECT CURRENT_*
isSimpleExpressionQuery(sql) ==
    /\ Len(sql) >= 2
    /\ \/ sql[2].k = "num"
       \/ Lower(sql[2]) \in {"now", "current_date", "current_time", "current_timestamp"}

\* checkBasicSQLStructure
checkBasicSQLStructure(sql) ==
    IF ~(sql[1].k \in {"kw", "id"}
         /\ Lower(sql[1]) \in {"select", "insert", "update", "delete", "with"})
    THEN <<"query must start with a valid SQL keyword">>
    ELSE IF /\ Lower(sql[1]) = "select"
            /\ CountSub(sql, "from") = 0
            /\ ~isSimpleExpressionQuery(sql)
    THEN <<"SELECT query must include FROM clause or be a simple expression">>
    ELSE NoErr

\* validateBasicSyntax; the statements of the model hold no quote characters,
\* so checkQuotesBalance passes
validateBasicSyntax(sql) ==
    IF IsErr(checkParenthesesBalance(sql))
    THEN Wrap("parentheses mismatch", checkParenthesesBalance(sql))
    ELSE IF IsErr(checkBasicSQLStructure(sql))
    THEN Wrap("invalid SQL structure", checkBasicSQLStructure(sql))
    ELSE NoErr

\* QueryValidator.ValidateQueryStructure; no statement of the model comes
\* near maxQueryLength characters
ValidateQueryStructure(sql) ==
    IF Len(sql) = 0 THEN <<"query cannot be empty">>
    ELSE IF calculateQueryComplexity(sql) > maxComplexity THEN <<"query too complex">>
    ELSE IF IsErr(checkForbiddenPatterns(sql))
         THEN Wrap("forbidden pattern detected", checkForbiddenPatterns(sql))
    ELSE IF IsErr(validateFunctions(sql))
         THEN Wrap("function validation failed", validateFunctions(sql))
    ELSE IF IsErr(validateBasicSyntax(sql))
         THEN Wrap("syntax validation failed", validateBasicSyntax(sql))
    ELSE NoErr

----------------------------------------------------------------------------
(* Parameter binding: src/unnamed/part_008, SQLEngine.convertParams *)

\* convertParams: the key "param_<i>" is modelled as the integer i; order is
\* the order in which the range over params visits the keys
convertParams(params, order) ==
    IF Cardinality(DOMAIN params) = 0
    THEN <<>>
    ELSE [i \in 1..Len(order) |-> params[order[i]]]

----------------------------------------------------------------------------
(* Dialect: src/internal/sql/dialect.go *)

\* strings.TrimSpace, then the removal of one trailing ";"
StripSemicolon(sql) ==
    IF Len(sql) > 0 /\ sql[Len(sql)].k = "p" /\ sql[Len(sql)].s = ";"
    THEN SubSeq(sql, 1, Len(sql) - 1)
    ELSE sql

\* ApplySort, the same text in PostgreSQLDialect and OracleDialect
ApplySort(sql, sortBy, sortOrder) ==
    IF sortBy = "" THEN sql
    ELSE LET q   == StripSemicolon(sql)
             dir == IF sortOrder # "ASC" /\ sortOrder # "DESC" THEN "ASC" ELSE sortOrder
         IN  IF CountPhrase(q, "order", "by") > 0
             THEN q \o <<P(","), Id(sortBy), Kw(dir)>>
             ELSE q \o <<Kw("ORDER"), Kw("BY"), Id(sortBy), Kw(dir)>>

\* ApplyPagination of the dialect CreateDialect(dbType) returns
ApplyPagination(dbt, sql, offset, limit) ==
    IF limit <= 0 THEN sql
    ELSE LET q == StripSemicolon(sql)
         IN  IF ToLower(dbt) = "oracle"
             THEN IF offset > 0
                  THEN q \o <<Kw("OFFSET"), Num(offset), Kw("ROWS"), Kw("FETCH"),
                              Kw("NEXT"), Num(limit), Kw("ROWS"), Kw("ONLY")>>
                  ELSE q \o <<Kw("FETCH"), Kw("FIRST"), Num(limit), Kw("ROWS"), Kw("ONLY")>>
             ELSE IF offset > 0
                  THEN q \o <<Kw("LIMIT"), Num(limit), Kw("OFFSET"), Num(offset)>>
                  ELSE q \o <<Kw("LIMIT"), Num(limit)>>

----------------------------------------------------------------------------
(* Response envelopes: src/internal/model/model.go *)

SQLErrorSyntax      == 4001
SQLErrorParams      == 4002
SQLErrorPermission  == 4003
SQLErrorConnection  == 4004
SQLErrorTransaction == 4005
SQLErrorTimeout     == 4006
SQLErrorResultSize  == 4007

\* one shape for SQLResponse and BatchSQLResponse; kind tells them apart,
\* "panic" stands for a panic that left the service without an envelope, and
\* code 0 for a nil Error.  The zero value of every field is Go's.
ZeroResponse ==
    [kind |-> "none", success |-> FALSE, code |-> 0, message |-> "",
     details |-> NoErr, data |-> <<>>, total |-> 0, affected_rows |-> 0,
     page |-> 0, page_size |-> 0, results |-> <<>>, total_affected_rows |-> 0,
     executed_count |-> 0, failed_count |-> 0]

PanicResponse == [ZeroResponse EXCEPT !.kind = "panic"]

NewSQLSuccessResponse(data, affectedRows, message) ==
    [ZeroResponse EXCEPT !.kind = "sql", !.success = TRUE, !.message = message,
                         !.data = data, !.affected_rows = affectedRows,
                         !.total = Len(data)]

NewSQLErrorResponse(code, message, details) ==
    [ZeroResponse EXCEPT !.kind = "sql", !.code = code, !.message = message,
                         !.details = details]

\* the counters of the error envelope keep their zero values
NewBatchSQLErrorResponse(code, message, details) ==
    [ZeroResponse EXCEPT !.kind = "batch", !.code = code, !.message = message,
                         !.details = details]

----------------------------------------------------------------------------
(* Service helpers: src/unnamed/part_009 *)

ValidateDatabaseType(t) == t \in {"postgres", "oracle"}

ValidateSQLAction(a) == ToLower(a) \in {"select", "insert", "update", "delete"}

\* validateStructuredQuery: the switch compares query.Action as it was sent
validateStructuredQuery(query) ==
    IF query.table = "" THEN <<"table name is required">>
    ELSE IF ~ValidateSQLAction(query.action) THEN <<"invalid action", query.action>>
    ELSE IF query.action = "insert" /\ Cardinality(DOMAIN query.data) = 0
         THEN <<"data is required for insert operation">>
    ELSE IF query.action = "update" /\ Cardinality(DOMAIN query.data) = 0
         THEN <<"data is required for update operation">>
    ELSE IF query.action = "delete" /\ Cardinality(DOMAIN query.where) = 0
         THEN <<"where condition is required for delete operation">>
    ELSE NoErr

validateSQLRequest(req) ==
    IF ~ValidateDatabaseType(req.database_type) THEN <<"unsupported database type">>
    ELSE IF Len(req.sql) = 0 /\ ~req.hasQuery
         THEN <<"either SQL or Query must be provided">>
    ELSE IF Len(req.sql) # 0 /\ req.hasQuery
         THEN <<"cannot provide both SQL and Query">>
    ELSE IF req.hasQuery /\ IsErr(validateStructuredQuery(req.query))
         THEN Wrap("structured query validation failed",
                   validateStructuredQuery(req.query))
    ELSE NoErr

MaxBatchOperations == 100

\* validateBatchRequest: the first operation that fails validation decides
validateBatchRequest(req) ==
    LET bad == {i \in 1..Len(req.operations) :
                    IsErr(validateSQLRequest(req.operations[i]))}
    IN  IF Len(req.operations) = 0 THEN <<"no operations provided">>
        ELSE IF Len(req.operations) > MaxBatchOperations
             THEN <<"too many operations (max: 100)">>
        ELSE IF ~ValidateDatabaseType(req.database_type)
             THEN <<"unsupported database type">>
        ELSE IF bad # {}
             THEN LET i == CHOOSE i \in bad : \A j \in bad : i <= j
                  IN  <<"operation validation failed", ToString(i - 1)>>
                      \o validateSQLRequest(req.operations[i])
        ELSE NoErr

\* buildQuery; do, wo, ho are the orders of the builder's ranges
buildQuery(dbt, req, do, wo, ho) ==
    IF Len(req.sql) # 0 THEN BuildOk(req.sql, req.params)
    ELSE IF req.hasQuery THEN BuildStructuredQuery(dbt, req.query, do, wo, ho)
    ELSE BuildErr("no query provided")

applyPaginationAndSort(dbt, sql, req) ==
    LET sorted == IF req.sort.present /\ req.sort.sort_by # ""
                  THEN ApplySort(sql, req.sort.sort_by, req.sort.sort_order)
                  ELSE sql
        offset == IF req.pagination.page > 1
                  THEN (req.pagination.page - 1) * req.pagination.page_size
                  ELSE 0
    IN  IF req.pagination.present /\ req.pagination.page_size > 0
        THEN ApplyPagination(dbt, sorted, offset, req.pagination.page_size)
        ELSE sorted

\* handleExecutionError
handleExecutionError(err) ==
    IF contains(err, "timeout") \/ contains(err, "context deadline exceeded")
    THEN NewSQLErrorResponse(SQLErrorTimeout, "Query timeout", err)
    ELSE IF contains(err, "connection") \/ contains(err, "connect")
    THEN NewSQLErrorResponse(SQLErrorConnection, "Database connection error", err)
    ELSE IF contains(err, "permission") \/ contains(err, "access denied")
    THEN NewSQLErrorResponse(SQLErrorPermission, "Permission denied", err)
    ELSE IF contains(err, "syntax") \/ contains(err, "invalid")
    THEN NewSQLErrorResponse(SQLErrorSyntax, "SQL syntax error", err)
    ELSE IF contains(err, "result set too large")
    THEN NewSQLErrorResponse(SQLErrorResultSize, "Result set too large", err)
    ELSE NewSQLErrorResponse(SQLErrorSyntax, "SQL execution error", err)

\* handleBatchExecutionError
handleBatchExecutionError(err) ==
    IF contains(err, "transaction")
    THEN NewBatchSQLErrorResponse(SQLErrorTransaction, "Transaction failed", err)
    ELSE NewBatchSQLErrorResponse(SQLErrorSyntax, "Batch execution error", err)

\* buildQueryResponse
buildQueryResponse(result, req) ==
    [NewSQLSuccessResponse(result.rows, 0, "Query executed successfully")
        EXCEPT !.total = result.total,
               !.page = IF req.pagination.present THEN req.pagination.page ELSE 0,
               !.page_size = IF req.pagination.present
                             THEN req.pagination.page_size ELSE 0]

\* the sum of the affected rows of the engine's per-operation results
RECURSIVE SumRows(_)
SumRows(rs) == IF Len(rs) = 0 THEN 0 ELSE rs[1] + SumRows(Tail(rs))

\* buildBatchResponse: result.Results holds the affected rows of each
\* operation the engine executed
buildBatchResponse(result) ==
    [ZeroResponse EXCEPT
        !.kind = "batch", !.success = result.success,
        !.message = "Batch executed successfully",
        !.results = [i \in 1..Len(result.results) |->
                        [index |-> i - 1, success |-> TRUE,
                         affected_rows |-> result.results[i]]],
        !.total_affected_rows = result.total,
        !.executed_count = Len(result.results),
        !.failed_count = 0]

----------------------------------------------------------------------------
(* Engine: src/unnamed/part_008 *)

\* MemoryOptimizer.OptimizeResultSet
OptimizeResultSet(maxResultSize, rows) ==
    IF Len(rows) <= maxResultSize THEN rows ELSE SubSeq(rows, 1, maxResultSize)

\* SQLEngine.ExecuteQuery.  out is what the driver does when it is reached:
\* it returns out.n rows, fails with out.text, or fails while scanning.
\* called tells whether the driver was reached, mon lists the monitor calls.
EngineExecuteQuery(c, sql, params, out) ==
    LET sErr == ValidateQueryStructure(sql)
        vErr == ValidateQuery(c, sql, params)
        rows == OptimizeResultSet(c.MaxResultSize, [i \in 1..out.n |-> i])
        fail(e, called) ==
            [err |-> e, rows |-> <<>>, total |-> 0, called |-> called,
             mon |-> <<"StartQuery", "Finish(false)">>]
    IN  IF IsErr(sErr) THEN fail(Wrap("query structure validation failed", sErr), FALSE)
        ELSE IF IsErr(vErr) THEN fail(Wrap("security validation failed", vErr), FALSE)
        ELSE IF ~IsSelectQuery(sql)
             THEN fail(<<"only SELECT queries are allowed in ExecuteQuery">>, FALSE)
        ELSE IF out.kind = "err" THEN fail(<<"failed to execute query", out.text>>, TRUE)
        ELSE IF out.kind = "scan"
             THEN fail(<<"failed to parse query result", "failed to scan row">>, TRUE)
        ELSE IF Len(rows) > c.MaxResultSize THEN fail(<<"result set too large">>, TRUE)
        ELSE [err |-> NoErr, rows |-> rows, total |-> Len(rows), called |-> TRUE,
              mon |-> <<"StartQuery", "Finish(true)">>]

\* an engine that never refuses raw SQL
rawSQLDisabled_Never(c) == FALSE

\* the check of SQLEngine.ExecuteSQL that raw SQL is enabled
rawSQLDisabled(c) == ~c.EnableRawSQL

\* SQLEngine.ExecuteSQL; every statement the driver executes affects one row
EngineExecuteSQL(c, sql, params, out) ==
    LET sErr == ValidateQueryStructure(sql)
        vErr == ValidateQuery(c, sql, params)
        fail(e, called) == [err |-> e, affected |-> 0, called |-> called]
    IN  IF IsErr(sErr) THEN fail(Wrap("query structure validation failed", sErr), FALSE)
        ELSE IF IsErr(vErr) THEN fail(Wrap("security validation failed", vErr), FALSE)
        ELSE IF rawSQLDisabled(c) THEN fail(<<"raw SQL execution is disabled">>, FALSE)
        ELSE IF out.kind = "err" THEN fail(<<"failed to execute SQL", out.text>>, TRUE)
        ELSE [err |-> NoErr, affected |-> 1, called |-> TRUE]

\* a preflight that validates the first statement of the batch only
batchPreflight_FirstOnly(c, qs) ==
    IF ~c.EnableBatch THEN <<"batch operations are disabled">>
    ELSE IF Len(qs) = 0 THEN <<"no queries provided">>
    ELSE IF IsErr(ValidateQuery(c, qs[1].sql, qs[1].params))
         THEN <<"security validation failed for query", "0">>
              \o ValidateQuery(c, qs[1].sql, qs[1].params)
    ELSE NoErr

\* a batch loop that validates nothing
validateFrom_Nothing(c, qs, i) == NoErr

\* the loop of SQLEngine.ExecuteBatch that validates the statements, from
\* statement i on: the error of the first statement refused
RECURSIVE validateFrom(_, _, _)
validateFrom(c, qs, i) ==
    IF i > Len(qs) THEN NoErr
    ELSE LET err == ValidateQuery(c, qs[i].sql, qs[i].params)
         IN  IF IsErr(err)
             THEN <<"security validation failed for query", ToString(i - 1)>> \o err
             ELSE validateFrom(c, qs, i + 1)

\* the checks of SQLEngine.ExecuteBatch that come before a statement runs
batchPreflight(c, qs) ==
    IF ~c.EnableBatch THEN <<"batch operations are disabled">>
    ELSE IF Len(qs) = 0 THEN <<"no queries provided">>
    ELSE validateFrom(c, qs, 1)

\* the branch of SQLEngine.ExecuteBatch: the transaction is used only when
\* the request asks for it and the configuration enables transactions
useTransaction(c, transactional) == transactional /\ c.EnableTransactions

\* a batch loop that goes on after a statement has failed
loopContinues_Always(failed) == TRUE

\* both batch loops return at the first statement that fails
loopContinues(failed) == ~failed

\* execResult.RowsAffected in the sample database: the statement of
\* operation i of a batch affects i rows, which tells the slots of a result
\* apart
rowsAffected(i) == i

\* a loop that puts the newest result in front of the earlier ones
appendResult_Front(rs, r) == <<r>> \o rs

\* result.Results = append(result.Results, ExecuteResult{...}) of both loops
appendResult(rs, r) == Append(rs, r)

\* the BatchResult both batch loops return when every statement succeeded
batchResult(rs) == [success |-> TRUE, results |-> rs, total |-> SumRows(rs)]

----------------------------------------------------------------------------
(* Handler: src/internal/handler/sql_handler.go *)

\* isQueryOperation: HandleSQL calls ExecuteQuery for the requests it holds
\* for and ExecuteSQL for the others
isQueryOperation(req) ==
    IF Len(req.sql) > 0
    THEN req.sql[1].k \in {"kw", "id"} /\ Lower(req.sql[1]) \in {"select", "with"}
    ELSE req.hasQuery /\ ToLower(req.query.action) = "select"

\* getHTTPStatusFromSQLError, on the code of a response's SQLError
getHTTPStatusFromSQLError(code) ==
    CASE code = SQLErrorParams      -> 400
      [] code = SQLErrorPermission  -> 403
      [] code = SQLErrorConnection  -> 503
      [] code = SQLErrorTimeout     -> 408
      [] code = SQLErrorSyntax      -> 400
      [] code = SQLErrorTransaction -> 500
      [] code = SQLErrorResultSize  -> 413
      [] OTHER                      -> 500

\* the status HandleSQL and HandleBatchSQL pass to c.JSON with the response
\* of the service; the recovery middleware answers a panic with 500
statusCode(response) ==
    IF response.kind = "panic" THEN 500
    ELSE IF response.success THEN 200
    ELSE getHTTPStatusFromSQLError(response.code)

----------------------------------------------------------------------------
(* Error mapper: src/internal/sql/error_mapper.go *)
(* An error text is the sequence of its words, which single blanks          *)
(* separate; the texts of the model are made of the words ErrWords.          *)

MaxErrWords == 2

ErrWords ==
    {"42601", "ORA-00942", "syntax", "Permission", "denied", "connection",
     "timeout", "deadlock", "parameter", "memory", "Duplicate", "key"}

ErrTexts == UNION {[1..n -> ErrWords] : n \in 1..MaxErrWords}

\* strings.ToLower(err.Error())
LowerText(text) == [i \in 1..Len(text) |-> ToLower(text[i])]

\* the fragments of the code tables and of the regular expressions that a
\* lower-cased word of ErrWords holds
Frags(word) ==
    CASE word = "connection" -> {"connection", "connect"}
      [] word = "timeout"    -> {"timeout", "time", "out"}
      [] word = "deadlock"   -> {"deadlock", "lock"}
      [] word \in {"duplicate", "key"} -> {}
      [] OTHER -> {word}

\* the pairs of fragments a single word holds one after the other
InWordGap == {<<"timeout", "time", "out">>}

\* the alternatives of a regular expression: a fragment, two fragments with
\* one blank between them, two fragments with .* between them
Frag(a)      == [kind |-> "frag",   a |-> a, b |-> ""]
Phrase(a, b) == [kind |-> "phrase", a |-> a, b |-> b]
Gap(a, b)    == [kind |-> "gap",    a |-> a, b |-> b]

\* strings.Contains(errMsg, code)
Contains(errMsg, code) == \E i \in 1..Len(errMsg) : code \in Frags(errMsg[i])

\* one alternative matches somewhere in errMsg.  No word of ErrWords ends or
\* starts with a fragment of a two-word alternative without being that
\* fragment, so a phrase matches two neighbouring words that equal its parts.
MatchAlt(alt, errMsg) ==
    CASE alt.kind = "frag" -> Contains(errMsg, alt.a)
      [] alt.kind = "phrase" ->
            \E i \in 1..(Len(errMsg) - 1) : errMsg[i] = alt.a /\ errMsg[i + 1] = alt.b
      [] alt.kind = "gap" ->
            \/ \E i \in 1..Len(errMsg) : <<errMsg[i], alt.a, alt.b>> \in InWordGap
            \/ \E i, j \in 1..Len(errMsg) :
                    i < j /\ alt.a \in Frags(errMsg[i]) /\ alt.b \in Frags(errMsg[j])

\* pattern.MatchString(errMsg)
MatchString(pattern, errMsg) == \E alt \in pattern.alts : MatchAlt(alt, errMsg)

SQLErr(code, message) == [code |-> code, message |-> message]

pgPatterns ==
    { [alts |-> {Phrase("syntax", "error"), Phrase("invalid", "syntax"),
                 Phrase("parse", "error")},
       err |-> SQLErr(SQLErrorSyntax, "SQL syntax error")],
      [alts |-> {Phrase("permission", "denied"), Phrase("access", "denied"),
                 Phrase("insufficient", "privilege")},
       err |-> SQLErr(SQLErrorPermission, "Permission denied")],
      [alts |-> {Frag("connection"), Frag("connect"), Frag("network"),
                 Frag("timeout"), Frag("unreachable")},
       err |-> SQLErr(SQLErrorConnection, "Database connection error")],
      [alts |-> {Phrase("invalid", "parameter"), Phrase("missing", "parameter"),
                 Gap("parameter", "required")},
       err |-> SQLErr(SQLErrorParams, "Parameter error")],
      [alts |-> {Frag("transaction"), Frag("deadlock"),
                 Phrase("serialization", "failure")},
       err |-> SQLErr(SQLErrorTransaction, "Transaction error")],
      [alts |-> {Frag("timeout"), Gap("time", "out"), Phrase("deadline", "exceeded")},
       err |-> SQLErr(SQLErrorTimeout, "Query timeout")] }

pgErrorCodes ==
    { [code |-> "42601", err |-> SQLErr(SQLErrorSyntax, "Syntax error")],
      [code |-> "42501", err |-> SQLErr(SQLErrorPermission, "Insufficient privilege")],
      [code |-> "08000", err |-> SQLErr(SQLErrorConnection, "Connection exception")],
      [code |-> "08003", err |-> SQLErr(SQLErrorConnection, "Connection does not exist")],
      [code |-> "08006", err |-> SQLErr(SQLErrorConnection, "Connection failure")],
      [code |-> "40001", err |-> SQLErr(SQLErrorTransaction, "Serialization failure")],
      [code |-> "40P01", err |-> SQLErr(SQLErrorTransaction, "Deadlock detected")],
      [code |-> "57014", err |-> SQLErr(SQLErrorTimeout, "Query canceled")] }

oracleErrorCodes ==
    { [code |-> "ora-00900", err |-> SQLErr(SQLErrorSyntax, "Invalid SQL statement")],
      [code |-> "ora-00901", err |-> SQLErr(SQLErrorSyntax, "Invalid CREATE command")],
      [code |-> "ora-00902", err |-> SQLErr(SQLErrorSyntax, "Invalid datatype")],
      [code |-> "ora-00903", err |-> SQLErr(SQLErrorSyntax, "Invalid table name")],
      [code |-> "ora-00904", err |-> SQLErr(SQLErrorSyntax, "Invalid identifier")],
      [code |-> "ora-00942",
       err |-> SQLErr(SQLErrorPermission, "Table or view does not exist")],
      [code |-> "ora-00955",
       err |-> SQLErr(SQLErrorSyntax, "Name is already used by an existing object")],
      [code |-> "ora-01017", err |-> SQLErr(SQLErrorPermission, "Invalid username/password")],
      [code |-> "ora-01031", err |-> SQLErr(SQLErrorPermission, "Insufficient privileges")],
      [code |-> "ora-01034", err |-> SQLErr(SQLErrorConnection, "Oracle not available")],
      [code |-> "ora-01089",
       err |-> SQLErr(SQLErrorConnection, "Immediate shutdown in progress")],
      [code |-> "ora-03113",
       err |-> SQLErr(SQLErrorConnection, "End-of-file on communication channel")],
      [code |-> "ora-03114", err |-> SQLErr(SQLErrorConnection, "Not connected to Oracle")],
      [code |-> "ora-12154",
       err |-> SQLErr(SQLErrorConnection, "TNS: could not resolve the connect identifier")],
      [code |-> "ora-12170",
       err |-> SQLErr(SQLErrorTimeout, "TNS: connect timeout occurred")],
      [code |-> "ora-12571", err |-> SQLErr(SQLErrorTimeout, "TNS: packet writer failure")],
      [code |-> "ora-00060",
       err |-> SQLErr(SQLErrorTransaction, "Deadlock detected while waiting for resource")],
      [code |-> "ora-08177",
       err |-> SQLErr(SQLErrorTransaction, "Cannot serialize access for this transaction")] }

oraclePatterns ==
    { [alts |-> {Frag("syntax"), Gap("invalid", "statement"), Frag("parse")},
       err |-> SQLErr(SQLErrorSyntax, "SQL syntax error")],
      [alts |-> {Frag("privilege"), Frag("permission"), Gap("access", "denied")},
       err |-> SQLErr(SQLErrorPermission, "Permission denied")],
      [alts |-> {Frag("connection"), Frag("connect"), Frag("tns"), Frag("network")},
       err |-> SQLErr(SQLErrorConnection, "Database connection error")],
      [alts |-> {Frag("timeout"), Gap("time", "out")},
       err |-> SQLErr(SQLErrorTimeout, "Query timeout")],
      [alts |-> {Frag("deadlock"), Frag("transaction"), Frag("serialize")},
       err |-> SQLErr(SQLErrorTransaction, "Transaction error")] }

genericPatterns ==
    { [alts |-> {Frag("syntax"), Frag("parse"), Gap("invalid", "sql")},
       err |-> SQLErr(SQLErrorSyntax, "SQL syntax error")],
      [alts |-> {Frag("permission"), Frag("privilege"), Gap("access", "denied"),
                 Frag("unauthorized")},
       err |-> SQLErr(SQLErrorPermission, "Permission denied")],
      [alts |-> {Frag("connection"), Frag("connect"), Frag("network"),
                 Frag("unreachable")},
       err |-> SQLErr(SQLErrorConnection, "Database connection error")],
      [alts |-> {Frag("parameter"), Frag("argument"), Gap("missing", "value")},
       err |-> SQLErr(SQLErrorParams, "Parameter error")],
      [alts |-> {Frag("timeout"), Gap("time", "out"), Frag("deadline")},
       err |-> SQLErr(SQLErrorTimeout, "Query timeout")],
      [alts |-> {Frag("transaction"), Frag("deadlock"), Gap("lock", "timeout")},
       err |-> SQLErr(SQLErrorTransaction, "Transaction error")],
      [alts |-> {Gap("too", "large"), Gap("limit", "exceeded"), Frag("memory")},
       err |-> SQLErr(SQLErrorResultSize, "Result set too large")] }

\* the entries of the code table and of the pattern table that errMsg hits
CodeHits(codes, errMsg) == {c.err : c \in {d \in codes : Contains(errMsg, d.code)}}
PatternHits(patterns, errMsg) ==
    {p.err : p \in {q \in patterns : MatchString(q, errMsg)}}

\* a default branch that reports the lower-cased text
defaultDetails_Lowered(errMsg, originalErr) == errMsg

\* the Details of the default branch of the three map functions
defaultDetails(errMsg, originalErr) == originalErr

\* What the two range loops and the default branch shared by the three map
\* functions can return.  Both loops range over a Go map and return at the
\* first entry that hits, so any entry that hits can be the one returned.
mapWith(codes, patterns, errMsg, originalErr) ==
    LET found(hits) ==
            {[code |-> h.code, message |-> h.message, details |-> originalErr] :
                h \in hits}
    IN  IF CodeHits(codes, errMsg) # {} THEN found(CodeHits(codes, errMsg))
        ELSE IF PatternHits(patterns, errMsg) # {}
             THEN found(PatternHits(patterns, errMsg))
        ELSE {[code |-> SQLErrorSyntax, message |-> "Database error",
               details |-> defaultDetails(errMsg, originalErr)]}

mapPostgreSQLError(errMsg, originalErr) ==
    mapWith(pgErrorCodes, pgPatterns, errMsg, originalErr)

mapOracleError(errMsg, originalErr) ==
    mapWith(oracleErrorCodes, oraclePatterns, errMsg, originalErr)

mapGenericError(errMsg, originalErr) == mapWith({}, genericPatterns, errMsg, originalErr)

\* MapError of a mapper made for dbt, on a non-nil error: the set of the
\* SQLError values it can return
MapError(dbt, err) ==
    CASE dbt = "postgres" -> mapPostgreSQLError(LowerText(err), err)
      [] dbt = "oracle"   -> mapOracleError(LowerText(err), err)
      [] OTHER            -> mapGenericError(LowerText(err), err)

NotValidated == [done |-> FALSE, err |-> <<>>, action |-> ""]

\* again is the code a second call of MapError on the same error returned
NotMapped ==
    [done |-> FALSE, code |-> 0, message |-> "", details |-> <<>>, again |-> 0]

----------------------------------------------------------------------------
(* Monitor: src/internal/sql/monitor.go *)

\* A text is a sequence of runs: the character c written n times.
Run(c, n) == [c |-> c, n |-> n]

RECURSIVE TextLen(_)
TextLen(text) ==
    IF Len(text) = 0 THEN 0 ELSE Head(text).n + TextLen(Tail(text))

\* the same text with adjacent runs of one character joined
RECURSIVE Normalize(_)
Normalize(text) ==
    IF Len(text) <= 1 THEN text
    ELSE LET rest == Normalize(Tail(text))
         IN  IF Head(text).c = Head(rest).c
             THEN <<Run(Head(text).c, Head(text).n + Head(rest).n)>> \o Tail(rest)
             ELSE <<Head(text)>> \o rest

\* strings.ReplaceAll(text, old, new) for one-character strings
ReplaceAll(text, old, new) ==
    [i \in 1..Len(text) |-> IF text[i].c = old THEN Run(new, text[i].n) ELSE text[i]]

\* text[:k]
RECURSIVE Prefix(_, _)
Prefix(text, k) ==
    IF k <= 0 \/ Len(text) = 0 THEN <<>>
    ELSE IF Head(text).n >= k THEN <<Run(Head(text).c, k)>>
    ELSE <<Head(text)>> \o Prefix(Tail(text), k - Head(text).n)

\* the length from which sanitizeSQL cuts the preview
PreviewLimit == 200

\* PerformanceMonitor.sanitizeSQL
sanitizeSQL(sql) ==
    LET sanitized == ReplaceAll(ReplaceAll(sql, "'", "?"), "\"", "?")
    IN  IF Len(sql) = 0 THEN <<>>
        ELSE IF TextLen(sanitized) > PreviewLimit
             THEN Normalize(Prefix(sanitized, PreviewLimit) \o <<Run(".", 3)>>)
        ELSE Normalize(sanitized)

NotSanitized == [done |-> FALSE, a |-> <<>>, b |-> <<>>, pa |-> <<>>, pb |-> <<>>]

\* the requests that can be inside StartQuery at the same time
Requests == {1, 2}

\* Time.UnixNano() and Time.Nanosecond() of the clock value t
UnixNano(t) == t
Nanosecond(t) == t % 1000000000

\* PerformanceMonitor.generateQueryID: "sql_<first>_<second>", t1 and t2
\* being what the first and the second call of time.Now() returned
generateQueryID(t1, t2) == <<"sql", UnixNano(t1), Nanosecond(t2) % 1000>>

\* at says where each request is inside generateQueryID ("out" of it, or
\* "between" its two calls of time.Now()), first is what its first call
\* returned, ids lists the QueryID of every QueryContext made so far
MonitorAtRest ==
    [at |-> [r \in Requests |-> "out"], first |-> [r \in Requests |-> 0],
     ids |-> <<>>]

----------------------------------------------------------------------------
(* Deadlines: context.WithTimeout in src/unnamed/part_008 *)

\* SQLConfig.MaxQueryTime, in ticks of the clock
MaxQueryTime == 2

NoDeadline == -1

\* the deadline of context.WithTimeout(ctx, MaxQueryTime) called at time t,
\* the request context ctx having no deadline of its own
WithTimeout(t) == t + MaxQueryTime

\* ctx.Err() # nil at time t for a context with deadline d
Expired(d, t) == d # NoDeadline /\ t >= d

\* ops counts the driver calls that returned without error, lastOk is the
\* time the last of them returned, under is the set of the deadlines the
\* driver calls were made under
NoTimer ==
    [phase |-> "idle", kind |-> "none", n |-> 0, ops |-> 0, entered |-> 0,
     deadline |-> NoDeadline, lastOk |-> NoDeadline, under |-> {},
     timedOut |-> FALSE]

\* the clock, the attempt timed and the monitor before anything has run
TimeAtRest ==
    /\ now = 0
    /\ timer = NoTimer
    /\ sani = NotSanitized
    /\ mon = MonitorAtRest

----------------------------------------------------------------------------
(* Sample inputs *)

MaxParams == 3

Vals == {10, 20, 30}

\* every map over a subset of the columns cols with values in vals
Maps(cols, vals) == UNION {[c -> vals] : c \in SUBSET cols}

SelectShapes ==
    { [fields |-> <<>>, group_by |-> <<>>, order_by |-> <<>>, limit |-> 0],
      [fields |-> <<"id", "name">>, group_by |-> <<>>,
       order_by |-> <<[field |-> "name", order |-> "desc"]>>, limit |-> 5],
      [fields |-> <<"c">>, group_by |-> <<"c">>,
       order_by |-> <<[field |-> "c", order |-> ""],
                      [field |-> "id", order |-> "DESC"]>>, limit |-> 0] }

BuilderActions == {"select", "insert", "update", "delete", "DELETE", "Update", "merge"}

StructuredQueries ==
    { [table |-> "items", action |-> a,
       fields |-> sh.fields, where |-> w, data |-> d, group_by |-> sh.group_by,
       having |-> h, order_by |-> sh.order_by, limit |-> sh.limit] :
        a \in BuilderActions, sh \in SelectShapes,
        w \in Maps({"b", "c"}, {10, 20}), d \in Maps({"a", "b"}, {30, 40}),
        h \in Maps({"c"}, {50, 60}) }

NoQuery ==
    [table |-> "", action |-> "", fields |-> <<>>, where |-> NoParams,
     data |-> NoParams, group_by |-> <<>>, having |-> NoParams,
     order_by |-> <<>>, limit |-> 0]

NotBuilt == [done |-> FALSE, sql |-> <<>>, params |-> NoParams, err |-> ""]
NotBound == [done |-> FALSE, args |-> <<>>]

----------------------------------------------------------------------------
(* Sample requests and configurations *)

MaxOps        == 3   \* operations of a batch
MaxRows       == 3   \* rows the driver returns for a read
MaxResultSize == 2   \* the max_result_size of the sample configurations

\* the defaults of the configuration, with a small max_result_size
DefaultConfig ==
    [AllowedTables |-> {"items"},
     AllowedActions |-> {"select", "insert", "update", "delete"},
     MaxResultSize |-> MaxResultSize,
     EnableRawSQL |-> TRUE, EnableBatch |-> TRUE, EnableTransactions |-> TRUE]

\* the defaults, the defaults with one feature switched off, and the
\* defaults with delete taken off the allowed actions
Configs ==
    { DefaultConfig,
      [DefaultConfig EXCEPT !.EnableRawSQL = FALSE],
      [DefaultConfig EXCEPT !.EnableBatch = FALSE],
      [DefaultConfig EXCEPT !.EnableTransactions = FALSE],
      [DefaultConfig EXCEPT !.AllowedActions = {"select", "insert", "update"}] }

NoPagination == [present |-> FALSE, page |-> 0, page_size |-> 0]
NoSort       == [present |-> FALSE, sort_by |-> "", sort_order |-> ""]

RawRequest(sql, params) ==
    [database_type |-> "postgres", sql |-> sql, params |-> params,
     hasQuery |-> FALSE, query |-> NoQuery,
     pagination |-> NoPagination, sort |-> NoSort]

StructuredRequest(q) ==
    [database_type |-> "postgres", sql |-> <<>>, params |-> NoParams,
     hasQuery |-> TRUE, query |-> q,
     pagination |-> NoPagination, sort |-> NoSort]

SQ(action, where, data) ==
    [NoQuery EXCEPT !.table = "items", !.action = action, !.where = where,
                    !.data = data]

RawSelectItems == <<Kw("SELECT"), Op("*"), Kw("FROM"), Id("items")>>
RawSelectUsers == <<Kw("SELECT"), Op("*"), Kw("FROM"), Id("users")>>
RawUpdateItems ==
    <<Kw("UPDATE"), Id("items"), Kw("SET"), Id("a"), Op("="),
      [k |-> "ph", s |-> "$", n |-> 1]>>

\* statements the security validator refuses for an injection pattern and
\* for a dangerous keyword
RawUnionSelect  == RawSelectItems \o <<Kw("UNION")>> \o RawSelectItems
RawSelectMaster == <<Kw("SELECT"), Op("*"), Kw("FROM"), Id("master")>>

\* a join of an allowed table with a table that has the name of a function
RawSelectJoinMax ==
    RawSelectItems \o <<Kw("CROSS"), Kw("JOIN"), Id("max")>>

\* a read that starts with a common table expression
RawWithSelect ==
    <<Kw("WITH"), Id("x"), Kw("AS"), P("("), Kw("SELECT"), Id("id"), Kw("FROM"),
      Id("items"), P(")")>> \o RawSelectItems

ReqUpdate      == RawRequest(RawUpdateItems, (1 :> 10))
ReqSelectUsers == RawRequest(RawSelectUsers, NoParams)
\* an allowed statement with a string parameter that holds a quote
ReqUpdateQuote == RawRequest(RawUpdateItems, (1 :> -1))
ReqDelete      == StructuredRequest(SQ("delete", ("b" :> 10), NoParams))
ReqDeleteAll   == StructuredRequest(SQ("delete", NoParams, NoParams))
ReqDELETEAll   == StructuredRequest(SQ("DELETE", NoParams, NoParams))

\* a read of a page of items sorted by name
SortedPage(page, pageSize, sortOrder) ==
    [RawRequest(RawSelectItems, NoParams) EXCEPT
        !.pagination = [present |-> TRUE, page |-> page, page_size |-> pageSize],
        !.sort = [present |-> TRUE, sort_by |-> "name", sort_order |-> sortOrder]]

\* a structured select that carries its own order_by and limit, sent with a
\* sort and a pagination of the request
OrderedSelect(limit) ==
    [StructuredRequest([SQ("select", NoParams, NoParams) EXCEPT
                            !.order_by = <<[field |-> "id", order |-> "desc"]>>,
                            !.limit = limit]) EXCEPT
        !.pagination = [present |-> TRUE, page |-> 2, page_size |-> 2],
        !.sort = [present |-> TRUE, sort_by |-> "name", sort_order |-> "asc"]]

\* the requests sent to the single read and write endpoints
SingleRequests ==
    { RawRequest(RawSelectItems, NoParams),
      SortedPage(2, 2, "desc"), SortedPage(1, 2, "asc"), SortedPage(2, 1, ""),
      OrderedSelect(0), OrderedSelect(5),
      StructuredRequest(SQ("select", NoParams, ("a" :> 30))),
      StructuredRequest(SQ("insert", ("b" :> 10), ("a" :> 30))),
      StructuredRequest(SQ("insert", NoParams, NoParams)),
      StructuredRequest([SQ("insert", NoParams, ("a" :> 30)) EXCEPT !.table = "users"]),
      StructuredRequest(SQ("update", ("b" :> 10), NoParams)),
      ReqSelectUsers, ReqUpdate, ReqUpdateQuote, ReqDelete, ReqDeleteAll, ReqDELETEAll,
      StructuredRequest(SQ("select", ("b" :> 10), NoParams)),
      StructuredRequest(SQ("update", ("b" :> 10), ("a" :> 30) @@ ("c" :> 20))),
      StructuredRequest(SQ("insert", NoParams, ("a" :> 30))),
      RawRequest(<<>>, NoParams),
      RawRequest(RawUnionSelect, NoParams),
      RawRequest(RawWithSelect, NoParams),
      RawRequest(RawSelectJoinMax, NoParams),
      RawRequest(RawSelectMaster, NoParams),
      [ReqDelete EXCEPT !.sql = RawSelectItems],
      [ReqUpdate EXCEPT !.database_type = "mysql"] }

\* the operations a sample batch is made of
BatchOps == {ReqUpdate, ReqUpdateQuote, ReqDelete, ReqSelectUsers, ReqDeleteAll,
             ReqDELETEAll}

BatchRequests ==
    { [database_type |-> "postgres", operations |-> ops,
       transactional |-> t, continue_on_error |-> c] :
        ops \in UNION {[1..n -> BatchOps] : n \in 1..MaxOps},
        t \in BOOLEAN, c \in BOOLEAN }

\* what the driver reports when it goes wrong
\* the texts of ctx.Err() once the deadline has fired or the caller is gone
ContextErrors == {"context deadline exceeded", "context canceled"}

DriverErrors == {"duplicate key value violates unique constraint"} \cup ContextErrors

ReadOutcomes ==
    {[kind |-> "rows", n |-> k, text |-> ""] : k \in 0..MaxRows}
    \cup {[kind |-> "err", n |-> 0, text |-> t] : t \in DriverErrors}
    \cup {[kind |-> "scan", n |-> 0, text |-> ""]}

WriteOutcomes ==
    {[kind |-> "ok", n |-> 0, text |-> ""]}
    \cup {[kind |-> "err", n |-> 0, text |-> t] : t \in DriverErrors}

\* a statement of a batch can also panic inside the driver
BatchOutcomes == WriteOutcomes \cup {[kind |-> "panic", n |-> 0, text |-> ""]}

\* the structured query holds a delete with an empty where
IsWildcardDelete(req) ==
    /\ req.hasQuery
    /\ ToLower(req.query.action) = "delete"
    /\ Cardinality(DOMAIN req.query.where) = 0

NoRequest ==
    [kind |-> "none", transactional |-> FALSE, continue_on_error |-> FALSE,
     n |-> 0, wildcard |-> FALSE, useTx |-> FALSE, rows |-> 0, failedAt |-> 0,
     routed |-> FALSE, sort |-> NoSort, pagination |-> NoPagination,
     hasQuery |-> FALSE, query |-> NoQuery]

\* the engine and the service before a request has arrived
EngineAtRest ==
    /\ db = {} /\ dbBefore = {}
    /\ tx = "none" /\ txPending = {}
    /\ pc = "idle" /\ idx = 0
    /\ cur = NoRequest
    /\ queries = <<>> /\ results = <<>>
    /\ driverLog = <<>> /\ monLog = <<>>
    /\ resp = ZeroResponse

----------------------------------------------------------------------------
(* The builder on its own: one structured query, built once *)

InitBuilder ==
    /\ dbType \in {"postgres", "oracle"}
    /\ bq \in StructuredQueries
    /\ built = NotBuilt
    /\ bparams = NoParams
    /\ bargs = NotBound
    /\ dberr = <<>> /\ mapped = NotMapped
    /\ vq = <<>> /\ verdict = NotValidated
    /\ TimeAtRest
    /\ cfg = DefaultConfig
    /\ EngineAtRest

Build ==
    /\ ~built.done
    /\ \E do \in Perms(DOMAIN bq.data), wo \in Perms(DOMAIN bq.where),
          ho \in Perms(DOMAIN bq.having) :
            LET r == BuildStructuredQuery(dbType, bq, do, wo, ho)
            IN  built' = [done |-> TRUE, sql |-> r.sql, params |-> r.params,
                          err |-> r.err]
    /\ UNCHANGED <<dbType, bq, bparams, bargs, dberr, mapped, vq, verdict, tvars, evars>>

NextBuilder == Build

SpecBuilder == InitBuilder /\ [][NextBuilder]_vars

----------------------------------------------------------------------------
(* convertParams on its own: one params map, converted once *)

InitBind ==
    /\ dbType \in {"postgres", "oracle"}
    /\ bq = NoQuery
    /\ built = NotBuilt
    /\ bparams \in UNION {[1..n -> Vals] : n \in 0..MaxParams}
    /\ bargs = NotBound
    /\ dberr = <<>> /\ mapped = NotMapped
    /\ vq = <<>> /\ verdict = NotValidated
    /\ TimeAtRest
    /\ cfg = DefaultConfig
    /\ EngineAtRest

Convert ==
    /\ ~bargs.done
    /\ \E order \in Perms(DOMAIN bparams) :
            bargs' = [done |-> TRUE, args |-> convertParams(bparams, order)]
    /\ UNCHANGED <<dbType, bq, built, bparams, dberr, mapped, vq, verdict, tvars, evars>>

NextBind == Convert

SpecBind == InitBind /\ [][NextBind]_vars

----------------------------------------------------------------------------
(* MapError on its own: one error, mapped once *)

InitMap ==
    /\ dbType \in {"postgres", "oracle", "mysql"}
    /\ bq = NoQuery
    /\ built = NotBuilt
    /\ bparams = NoParams
    /\ bargs = NotBound
    /\ dberr \in ErrTexts
    /\ mapped = NotMapped
    /\ vq = <<>> /\ verdict = NotValidated
    /\ TimeAtRest
    /\ cfg = DefaultConfig
    /\ EngineAtRest

Map ==
    /\ ~mapped.done
    /\ \E e \in MapError(dbType, dberr) :
            mapped' = [done |-> TRUE, code |-> e.code, message |-> e.message,
                       details |-> e.details, again |-> 0]
    /\ UNCHANGED <<dbType, bq, built, bparams, bargs, dberr, vq, verdict, tvars, evars>>

\* MapError called once more on the same error
MapAgain ==
    /\ mapped.done /\ mapped.again = 0
    /\ \E e \in MapError(dbType, dberr) :
            mapped' = [mapped EXCEPT !.again = e.code]
    /\ UNCHANGED <<dbType, bq, built, bparams, bargs, dberr, vq, verdict, tvars, evars>>

NextMap == Map \/ MapAgain

SpecMap == InitMap /\ [][NextMap]_vars

----------------------------------------------------------------------------
(* ValidateQuery on its own: one statement, validated once *)

\* the longest column list of the common table expression of a sample
MaxCteFields == 6

CteColumns == <<"id", "name", "a", "b", "c", "d", "e">>

\* the statements a common table expression is put in front of
CteOperations ==
    { RawSelectItems,
      RawUpdateItems,
      <<Kw("DELETE"), Kw("FROM"), Id("items"), Kw("WHERE"), Id("b"), Op("="),
        [k |-> "ph", s |-> "$", n |-> 1]>>,
      <<Kw("INSERT"), Kw("INTO"), Id("items"), P("("), Id("a"), P(")"),
        Kw("VALUES"), P("("), [k |-> "ph", s |-> "$", n |-> 1], P(")")>> }

\* WITH x AS (SELECT <f columns> FROM items) <operation>
WithStatement(f, operation) ==
    <<Kw("WITH"), Id("x"), Kw("AS"), P("("), Kw("SELECT")>>
    \o Join([i \in 1..f |-> <<Id(CteColumns[i])>>], <<P(",")>>)
    \o <<Kw("FROM"), Id("items"), P(")")>>
    \o operation

ValidatedStatements ==
    CteOperations
    \cup {WithStatement(f, op) : f \in 1..MaxCteFields, op \in CteOperations}

InitValidate ==
    /\ dbType = "postgres"
    /\ bq = NoQuery
    /\ built = NotBuilt
    /\ bparams = NoParams
    /\ bargs = NotBound
    /\ dberr = <<>> /\ mapped = NotMapped
    /\ vq \in ValidatedStatements
    /\ verdict = NotValidated
    /\ TimeAtRest
    /\ cfg \in Configs
    /\ EngineAtRest

\* ValidateQuery(vq, params); action is what extractSQLAction took the
\* statement for inside checkActionPermission
Validate ==
    /\ ~verdict.done
    /\ verdict' = [done |-> TRUE, err |-> ValidateQuery(cfg, vq, (1 :> 10)),
                   action |-> extractSQLAction(vq)]
    /\ UNCHANGED <<dbType, bq, built, bparams, bargs, dberr, mapped, vq, tvars, evars>>

NextValidate == Validate

SpecValidate == InitValidate /\ [][NextValidate]_vars

----------------------------------------------------------------------------
(* The deadline of one attempt after the other *)

\* the last value of the clock
MaxClock == 5

InitDeadline ==
    /\ dbType = "postgres"
    /\ bq = NoQuery
    /\ built = NotBuilt
    /\ bparams = NoParams
    /\ bargs = NotBound
    /\ dberr = <<>> /\ mapped = NotMapped
    /\ vq = <<>> /\ verdict = NotValidated
    /\ TimeAtRest
    /\ cfg = DefaultConfig
    /\ EngineAtRest

\* time passes
Tick ==
    /\ now < MaxClock
    /\ now' = now + 1
    /\ UNCHANGED <<dbType, bq, built, bparams, bargs, dberr, mapped, vq, verdict,
                   timer, sani, mon, evars>>

\* a request enters ExecuteQuery, ExecuteSQL or ExecuteBatch with n statements
Enter ==
    /\ timer.phase = "idle"
    /\ \E kind \in {"query", "sql", "batch"} :
       \E n \in (IF kind = "batch" THEN 1..MaxOps ELSE {1}) :
            timer' = [NoTimer EXCEPT !.phase = "validating", !.kind = kind,
                                     !.n = n, !.entered = now]
    /\ UNCHANGED <<dbType, bq, built, bparams, bargs, dberr, mapped, vq, verdict,
                   now, sani, mon, evars>>

\* the checks that come before the driver end: with a refusal, or with the
\* call of context.WithTimeout that follows them
EndValidation ==
    /\ timer.phase = "validating"
    /\ \E refused \in BOOLEAN :
            timer' = IF refused
                     THEN [timer EXCEPT !.phase = "done"]
                     ELSE [timer EXCEPT !.phase = "executing",
                                        !.deadline = WithTimeout(now)]
    /\ UNCHANGED <<dbType, bq, built, bparams, bargs, dberr, mapped, vq, verdict,
                   now, sani, mon, evars>>

\* one driver call under the context of the attempt returns: with the
\* context's error once the deadline has passed, with its result otherwise
DriverReturns ==
    /\ timer.phase = "executing"
    /\ timer' =
            IF Expired(timer.deadline, now)
            THEN [timer EXCEPT !.phase = "done", !.timedOut = TRUE,
                               !.under = @ \cup {timer.deadline}]
            ELSE [timer EXCEPT !.ops = @ + 1, !.lastOk = now,
                               !.under = @ \cup {timer.deadline},
                               !.phase = IF timer.ops + 1 = timer.n
                                         THEN "done" ELSE "executing"]
    /\ UNCHANGED <<dbType, bq, built, bparams, bargs, dberr, mapped, vq, verdict,
                   now, sani, mon, evars>>

\* the attempt returns to its caller
Leave ==
    /\ timer.phase = "done"
    /\ timer' = NoTimer
    /\ UNCHANGED <<dbType, bq, built, bparams, bargs, dberr, mapped, vq, verdict,
                   now, sani, mon, evars>>

NextDeadline == Tick \/ Enter \/ EndValidation \/ DriverReturns \/ Leave

SpecDeadline == InitDeadline /\ [][NextDeadline]_vars

----------------------------------------------------------------------------
(* sanitizeSQL on its own: two statements, each sanitized once *)

\* the longest sample statement, in runs
MaxRuns == 3

\* the runs the sample statements are made of: the two quotes, single
\* letters, and a run that fills the preview
SampleRuns ==
    {Run("'", 1), Run("\"", 1), Run("a", 1), Run("b", 1), Run("a", PreviewLimit)}

SampleTexts == UNION {[1..n -> SampleRuns] : n \in 0..MaxRuns}

\* text with one run replaced by another run
Variants(text) ==
    {text} \cup {[text EXCEPT ![i] = r] : i \in 1..Len(text), r \in SampleRuns}

InitSanitize ==
    /\ dbType = "postgres"
    /\ bq = NoQuery
    /\ built = NotBuilt
    /\ bparams = NoParams
    /\ bargs = NotBound
    /\ dberr = <<>> /\ mapped = NotMapped
    /\ vq = <<>> /\ verdict = NotValidated
    /\ now = 0 /\ timer = NoTimer /\ mon = MonitorAtRest
    /\ \E a \in SampleTexts : \E b \in Variants(a) :
            sani = [NotSanitized EXCEPT !.a = Normalize(a), !.b = Normalize(b)]
    /\ cfg = DefaultConfig
    /\ EngineAtRest

\* StartQuery makes the preview of each of the two statements
Sanitize ==
    /\ ~sani.done
    /\ sani' = [sani EXCEPT !.done = TRUE, !.pa = sanitizeSQL(sani.a),
                            !.pb = sanitizeSQL(sani.b)]
    /\ UNCHANGED <<dbType, bq, built, bparams, bargs, dberr, mapped, vq, verdict,
                   now, timer, mon, evars>>

NextSanitize == Sanitize

SpecSanitize == InitSanitize /\ [][NextSanitize]_vars

----------------------------------------------------------------------------
(* StartQuery called by concurrent requests *)

\* the query ids allocated in a run
MaxIds == 3

InitMonitor ==
    /\ dbType = "postgres"
    /\ bq = NoQuery
    /\ built = NotBuilt
    /\ bparams = NoParams
    /\ bargs = NotBound
    /\ dberr = <<>> /\ mapped = NotMapped
    /\ vq = <<>> /\ verdict = NotValidated
    /\ TimeAtRest
    /\ cfg = DefaultConfig
    /\ EngineAtRest

\* request r calls StartQuery, and generateQueryID makes its first call of
\* time.Now()
ReadClockFirst(r) ==
    /\ mon.at[r] = "out"
    /\ Len(mon.ids) + Cardinality({q \in Requests : mon.at[q] = "between"}) < MaxIds
    /\ mon' = [mon EXCEPT !.at[r] = "between", !.first[r] = now]
    /\ UNCHANGED <<dbType, bq, built, bparams, bargs, dberr, mapped, vq, verdict,
                   now, timer, sani, evars>>

\* generateQueryID makes its second call of time.Now() and returns the id,
\* which StartQuery puts in the QueryContext
ReadClockSecond(r) ==
    /\ mon.at[r] = "between"
    /\ mon' = [mon EXCEPT !.at[r] = "out",
                          !.ids = Append(@, generateQueryID(mon.first[r], now))]
    /\ UNCHANGED <<dbType, bq, built, bparams, bargs, dberr, mapped, vq, verdict,
                   now, timer, sani, evars>>

NextMonitor ==
    \/ Tick
    \/ \E r \in Requests : ReadClockFirst(r)
    \/ \E r \in Requests : ReadClockSecond(r)

SpecMonitor == InitMonitor /\ [][NextMonitor]_vars

----------------------------------------------------------------------------
(* The service and the engine serving requests *)

Init ==
    /\ dbType \in {"postgres", "oracle"}
    /\ bq = NoQuery
    /\ built = NotBuilt
    /\ bparams = NoParams
    /\ bargs = NotBound
    /\ dberr = <<>> /\ mapped = NotMapped
    /\ vq = <<>> /\ verdict = NotValidated
    /\ TimeAtRest
    /\ cfg \in Configs
    /\ EngineAtRest

DriverCall(call, i, inTx, ok) == [call |-> call, idx |-> i, inTx |-> inTx, ok |-> ok]

\* what every request does on arrival to the state kept per request
Arrive ==
    /\ pc = "idle"
    /\ dbBefore' = db
    /\ txPending' = {}
    /\ results' = <<>>

\* sqlService.ExecuteQuery, with SQLEngine.ExecuteQuery inside
ExecuteQuery ==
    /\ Arrive
    /\ \E req \in SingleRequests, out \in ReadOutcomes :
       \E do \in Perms(DOMAIN req.query.data), wo \in Perms(DOMAIN req.query.where),
          ho \in Perms(DOMAIN req.query.having) :
       \E vErr \in {validateSQLRequest(req)}, b \in {buildQuery(dbType, req, do, wo, ho)} :
       \E q \in {applyPaginationAndSort(dbType, b.sql, req)} :
       \E r \in {EngineExecuteQuery(cfg, q, b.params, out)} :
            LET sent == ~IsErr(vErr) /\ b.err = ""
            IN  /\ resp' =
                    IF IsErr(vErr)
                    THEN NewSQLErrorResponse(SQLErrorParams,
                                             "Request validation failed", vErr)
                    ELSE IF b.err # ""
                    THEN NewSQLErrorResponse(SQLErrorSyntax,
                                             "Query building failed", <<b.err>>)
                    ELSE IF IsErr(r.err) THEN handleExecutionError(r.err)
                    ELSE buildQueryResponse(r, req)
                /\ queries' = IF sent
                              THEN <<[sql |-> q, params |-> b.params,
                                      structured |-> req.hasQuery]>>
                              ELSE <<>>
                /\ driverLog' = IF sent /\ r.called
                                THEN <<DriverCall("query", 1, FALSE, out.kind = "rows")>>
                                ELSE <<>>
                /\ monLog' = IF sent THEN r.mon ELSE <<>>
                /\ cur' = [NoRequest EXCEPT
                            !.kind = "query", !.n = 1,
                            !.routed = isQueryOperation(req),
                            !.sort = req.sort, !.pagination = req.pagination,
                            !.wildcard = IsWildcardDelete(req),
                            !.hasQuery = req.hasQuery, !.query = req.query,
                            !.rows = IF sent /\ r.called /\ out.kind = "rows"
                                     THEN out.n ELSE 0]
    /\ tx' = "none" /\ idx' = 0 /\ pc' = "done"
    /\ UNCHANGED <<bvars, cfg, db>>

\* sqlService.ExecuteSQL, with SQLEngine.ExecuteSQL inside
ExecuteSQL ==
    /\ Arrive
    /\ \E req \in SingleRequests, out \in WriteOutcomes :
       \E do \in Perms(DOMAIN req.query.data), wo \in Perms(DOMAIN req.query.where),
          ho \in Perms(DOMAIN req.query.having) :
       \E vErr \in {validateSQLRequest(req)}, b \in {buildQuery(dbType, req, do, wo, ho)} :
       \E r \in {EngineExecuteSQL(cfg, b.sql, b.params, out)} :
            LET sent == ~IsErr(vErr) /\ b.err = ""
            IN  /\ resp' =
                    IF IsErr(vErr)
                    THEN NewSQLErrorResponse(SQLErrorParams,
                                             "Request validation failed", vErr)
                    ELSE IF b.err # ""
                    THEN NewSQLErrorResponse(SQLErrorSyntax,
                                             "Query building failed", <<b.err>>)
                    ELSE IF IsErr(r.err) THEN handleExecutionError(r.err)
                    ELSE NewSQLSuccessResponse(<<>>, r.affected,
                                               "SQL executed successfully")
                /\ queries' = IF sent
                              THEN <<[sql |-> b.sql, params |-> b.params,
                                      structured |-> req.hasQuery]>>
                              ELSE <<>>
                /\ driverLog' = IF sent /\ r.called
                                THEN <<DriverCall("exec", 1, FALSE, out.kind = "ok")>>
                                ELSE <<>>
                /\ db' = IF sent /\ ~IsErr(r.err) THEN db \cup {1} ELSE db
                /\ cur' = [NoRequest EXCEPT
                            !.kind = "sql", !.n = 1,
                            !.routed = ~isQueryOperation(req),
                            !.wildcard = IsWildcardDelete(req),
                            !.hasQuery = req.hasQuery, !.query = req.query,
                            !.failedAt = IF sent /\ r.called /\ IsErr(r.err)
                                         THEN 1 ELSE 0]
    /\ tx' = "none" /\ idx' = 0 /\ monLog' = <<>> /\ pc' = "done"
    /\ UNCHANGED <<bvars, cfg>>

\* the order of the range over a map with at most one key, as the maps of
\* the operations of the sample batches are
SingleOrder(m) == CHOOSE o \in Perms(DOMAIN m) : TRUE

\* the loop of sqlService.ExecuteBatch that builds the statements: what
\* buildQuery returned for each operation, in input order
RECURSIVE buildAll(_, _)
buildAll(dbt, ops) ==
    IF Len(ops) = 0 THEN <<>>
    ELSE <<buildQuery(dbt, Head(ops), SingleOrder(Head(ops).query.data),
                      SingleOrder(Head(ops).query.where),
                      SingleOrder(Head(ops).query.having))>>
         \o buildAll(dbt, Tail(ops))

\* the BatchQuery values made of what buildAll returned
RECURSIVE batchQueries(_, _)
batchQueries(b, ops) ==
    IF Len(ops) = 0 THEN <<>>
    ELSE <<[sql |-> Head(b).sql, params |-> Head(b).params,
            structured |-> Head(ops).hasQuery]>>
         \o batchQueries(Tail(b), Tail(ops))

\* sqlService.ExecuteBatch up to the first statement: validation, building,
\* SQLEngine.ExecuteBatch's checks and its choice of a loop, and the Begin of
\* executeBatchWithTransaction
ExecuteBatch ==
    /\ Arrive
    /\ \E req \in BatchRequests, beginErr \in {"", "connection refused"} :
       \E vErr \in {validateBatchRequest(req)}, b \in {buildAll(dbType, req.operations)} :
       \E qs \in {batchQueries(b, req.operations)} :
       \E pErr \in {batchPreflight(cfg, qs)} :
        LET n      == Len(req.operations)
            badB   == {i \in 1..n : b[i].err # ""}
            sent   == ~IsErr(vErr) /\ badB = {}
            runs   == sent /\ ~IsErr(pErr)
            useTx  == runs /\ useTransaction(cfg, req.transactional)
            begun  == useTx /\ beginErr = ""
        IN  /\ resp' =
                IF IsErr(vErr)
                THEN NewBatchSQLErrorResponse(SQLErrorParams,
                        "Batch request validation failed", vErr)
                ELSE IF badB # {}
                THEN NewBatchSQLErrorResponse(SQLErrorSyntax, "Query building failed",
                        <<b[CHOOSE i \in badB : \A j \in badB : i <= j].err>>)
                ELSE IF IsErr(pErr) THEN handleBatchExecutionError(pErr)
                ELSE IF useTx /\ ~begun
                THEN handleBatchExecutionError(<<"failed to begin transaction", beginErr>>)
                ELSE ZeroResponse
            /\ queries' = IF sent THEN qs ELSE <<>>
            /\ driverLog' = IF useTx THEN <<DriverCall("begin", 0, TRUE, begun)>> ELSE <<>>
            /\ tx' = IF begun THEN "open" ELSE "none"
            /\ pc' = IF begun THEN "tx_exec"
                     ELSE IF runs /\ ~useTx THEN "notx_exec"
                     ELSE "done"
            /\ idx' = IF begun \/ (runs /\ ~useTx) THEN 1 ELSE 0
            /\ cur' = [NoRequest EXCEPT
                        !.kind = "batch", !.n = n, !.routed = TRUE,
                        !.transactional = req.transactional,
                        !.continue_on_error = req.continue_on_error,
                        !.wildcard = \E i \in 1..n : IsWildcardDelete(req.operations[i]),
                        !.useTx = useTx]
    /\ monLog' = <<>>
    /\ UNCHANGED <<bvars, cfg, db>>

\* one turn of the loop of executeBatchWithTransaction: tx.Exec, and on an
\* error or a panic the Rollback and the way out through the service
TxExec ==
    /\ pc = "tx_exec"
    /\ \E out \in BatchOutcomes :
        LET failed == out.kind = "err"
            e      == DriverCall("exec", idx, TRUE, out.kind = "ok")
            rb     == DriverCall("rollback", 0, TRUE, TRUE)
        IN  IF out.kind # "panic" /\ loopContinues(failed)
            THEN /\ txPending' = IF failed THEN txPending
                                 ELSE txPending \cup {idx}
                 /\ results' = IF failed THEN results
                               ELSE appendResult(results, rowsAffected(idx))
                 /\ cur' = IF failed /\ cur.failedAt = 0
                           THEN [cur EXCEPT !.failedAt = idx] ELSE cur
                 /\ driverLog' = Append(driverLog, e)
                 /\ idx' = idx + 1
                 /\ pc' = IF idx = cur.n THEN "tx_commit" ELSE "tx_exec"
                 /\ UNCHANGED <<tx, resp>>
            ELSE /\ driverLog' = driverLog \o <<e, rb>>
                 /\ tx' = "rolled_back"
                 /\ txPending' = {}
                 /\ cur' = [cur EXCEPT !.failedAt = idx]
                 /\ pc' = "done"
                 /\ resp' = IF out.kind = "panic" THEN PanicResponse
                            ELSE handleBatchExecutionError(
                                    <<"failed to execute query", ToString(idx - 1),
                                      out.text>>)
                 /\ UNCHANGED <<results, idx>>
    /\ UNCHANGED <<bvars, cfg, db, dbBefore, queries, monLog>>

\* the end of executeBatchWithTransaction: tx.Commit, and the way out
\* through the service
TxCommit ==
    /\ pc = "tx_commit"
    /\ \E out \in WriteOutcomes :
        /\ driverLog' = Append(driverLog, DriverCall("commit", 0, TRUE, out.kind = "ok"))
        /\ IF out.kind = "ok"
           THEN /\ db' = db \cup txPending
                /\ txPending' = {}
                /\ tx' = "committed"
                /\ resp' = buildBatchResponse(batchResult(results))
           ELSE /\ tx' = "commit_failed"
                /\ resp' = handleBatchExecutionError(
                                <<"failed to commit transaction", out.text>>)
                /\ UNCHANGED <<db, txPending>>
    /\ pc' = "done"
    /\ UNCHANGED <<bvars, cfg, dbBefore, idx, cur, queries, results, monLog>>

\* one turn of the loop of executeBatchWithoutTransaction: db.Exec, and the
\* way out through the service after the last turn, an error or a panic
NoTxExec ==
    /\ pc = "notx_exec"
    /\ \E out \in BatchOutcomes :
        LET failed == out.kind = "err"
            rs     == IF out.kind = "ok"
                      THEN appendResult(results, rowsAffected(idx)) ELSE results
        IN  /\ driverLog' = Append(driverLog, DriverCall("exec", idx, FALSE, out.kind = "ok"))
            /\ db' = IF out.kind = "ok" THEN db \cup {idx} ELSE db
            /\ results' = rs
            /\ cur' = IF out.kind # "ok" /\ cur.failedAt = 0
                      THEN [cur EXCEPT !.failedAt = idx] ELSE cur
            /\ IF out.kind # "panic" /\ loopContinues(failed)
               THEN /\ idx' = idx + 1
                    /\ pc' = IF idx = cur.n THEN "done" ELSE "notx_exec"
                    /\ resp' = IF idx = cur.n
                               THEN buildBatchResponse(batchResult(rs)) ELSE resp
               ELSE /\ pc' = "done"
                    /\ resp' = IF out.kind = "panic" THEN PanicResponse
                               ELSE handleBatchExecutionError(
                                        <<"failed to execute query", ToString(idx - 1),
                                          out.text>>)
                    /\ UNCHANGED idx
    /\ UNCHANGED <<bvars, cfg, dbBefore, tx, txPending, queries, monLog>>

\* the handler writes the response to the client and the request is over:
\* what the request committed is from now on the work of an earlier request,
\* and the engine is ready for the next request
Respond ==
    /\ pc = "done"
    /\ db' = IF db = {} THEN {} ELSE {0}
    /\ dbBefore' = db'
    /\ tx' = "none" /\ txPending' = {}
    /\ pc' = "idle" /\ idx' = 0
    /\ cur' = NoRequest
    /\ queries' = <<>> /\ results' = <<>>
    /\ driverLog' = <<>> /\ monLog' = <<>>
    /\ resp' = ZeroResponse
    /\ UNCHANGED <<bvars, cfg>>

Next ==
    \/ ExecuteQuery \/ ExecuteSQL \/ ExecuteBatch
    \/ TxExec \/ TxCommit \/ NoTxExec
    \/ Respond

Spec == Init /\ [][Next]_vars

----------------------------------------------------------------------------
(* Properties of the query builder *)

PhPos(sql) == {p \in 1..Len(sql) : sql[p].k = "ph"}

\* the clause a placeholder stands in: the last SET, WHERE, HAVING or VALUES
\* keyword before position p
ClauseOf(sql, p) ==
    LET ks == {q \in 1..(p - 1) :
                sql[q].k = "kw" /\ sql[q].s \in {"SET", "WHERE", "HAVING", "VALUES"}}
    IN  sql[CHOOSE q \in ks : \A r \in ks : r <= q].s

\* the value the query gives to the column written next to the placeholder at p
ValueNextTo(query, sql, p) ==
    LET cl == ClauseOf(sql, p)
    IN  CASE cl = "SET"    -> query.data[sql[p - 2].s]
          [] cl = "WHERE"  -> query.where[sql[p - 2].s]
          [] cl = "HAVING" -> query.having[sql[p - 2].s]
          [] cl = "VALUES" ->
                \* the j-th placeholder of VALUES (...) stands for the j-th
                \* column of the column list
                LET j    == Cardinality({q \in PhPos(sql) : q <= p})
                    cols == SelectSeq(SubSeq(sql, 4, Len(sql)), LAMBDA t : t.k = "id")
                IN  query.data[cols[j].s]

\* C6: for every structured query the builder accepts, the SQL holds the
\* placeholders 1..N, each once and in rising order (data, then where, then
\* having), the params map has exactly the keys param_1..param_N, and param_i
\* is the value of the column written next to placeholder i.
C6_PlaceholdersAligned ==
    (built.done /\ built.err = "") =>
        LET sql == built.sql
            N   == Cardinality(PhPos(sql))
        IN  /\ \A p \in PhPos(sql) : sql[p].n \in 1..N
            /\ \A i \in 1..N : Cardinality({p \in PhPos(sql) : sql[p].n = i}) = 1
            /\ \A p, q \in PhPos(sql) : p < q => sql[p].n < sql[q].n
            /\ DOMAIN built.params = 1..N
            /\ \A p \in PhPos(sql) :
                    built.params[sql[p].n] = ValueNextTo(bq, sql, p)

\* an update with two data columns and two where columns has been built
C6_Witness ==
    /\ built.done /\ built.err = ""
    /\ ToLower(bq.action) = "update"
    /\ Cardinality(DOMAIN bq.data) = 2 /\ Cardinality(DOMAIN bq.where) = 2
    /\ Cardinality(DOMAIN built.params) = 4

----------------------------------------------------------------------------
(* Properties of parameter binding *)

\* C5: for a params map with the keys param_1..param_N, the i-th positional
\* argument handed to the driver is the value of param_i, whatever the order
\* in which the map is visited.
C5_ArgsFollowParamNames ==
    bargs.done =>
        /\ Len(bargs.args) = Cardinality(DOMAIN bparams)
        /\ \A i \in DOMAIN bparams : bargs.args[i] = bparams[i]

----------------------------------------------------------------------------
(* Properties of the batch paths *)

BatchDone == pc = "done" /\ cur.kind = "batch"

\* the positions of the statements the driver was asked to execute
Executed == {driverLog[j].idx : j \in {k \in 1..Len(driverLog) : driverLog[k].call = "exec"}}

\* C1: when an operation of a batch sent with transactional=true fails, the
\* database after the batch equals the database before it, and a commit
\* happens only when every operation succeeded.
C1_TransactionalBatchAtomic ==
    (BatchDone /\ cur.transactional) =>
        /\ cur.failedAt # 0 => db = dbBefore
        /\ db # dbBefore => (cur.failedAt = 0 /\ Len(results) = cur.n)

\* C2: when an operation of a transactional batch fails, the batch response
\* has success=false, total_affected_rows=0, executed_count=0 and
\* failed_count equal to the number of operations.
C2_FailedTransactionalBatchResponse ==
    (BatchDone /\ cur.useTx /\ cur.failedAt # 0 /\ resp.kind = "batch") =>
        /\ resp.success = FALSE
        /\ resp.total_affected_rows = 0
        /\ resp.executed_count = 0
        /\ resp.failed_count = cur.n

\* C3: a batch that opened a transaction leaves executeBatchWithTransaction
\* with the transaction committed or rolled back, on every way out: success,
\* an error of an operation, a panic, an error of the commit.
C3_TransactionTerminates ==
    (BatchDone /\ \E j \in 1..Len(driverLog) :
                    driverLog[j].call = "begin" /\ driverLog[j].ok) =>
        tx \in {"committed", "rolled_back"}

\* C8: in a batch without a transaction and with continue_on_error=true, a
\* failing operation is recorded in its own result slot and every operation
\* after it is still executed.
C8_ContinueOnError ==
    (BatchDone /\ ~cur.transactional /\ cur.continue_on_error
        /\ cur.failedAt # 0 /\ resp.kind = "batch") =>
        /\ Executed = 1..cur.n
        /\ Len(resp.results) = cur.n
        /\ ~resp.results[cur.failedAt].success

\* C9: in a batch without a transaction and with continue_on_error=false,
\* the first failing operation ends the batch: no operation after it is
\* executed, and what the operations before it did stays committed.
C9_AbortAtFirstFailure ==
    (cur.kind = "batch" /\ ~cur.transactional /\ ~cur.continue_on_error
        /\ cur.failedAt # 0) =>
        /\ pc = "done"
        /\ Executed = 1..cur.failedAt
        /\ db = dbBefore \cup 1..(cur.failedAt - 1)

\* the second of three operations failed and the first one stays committed
C9_Witness ==
    /\ BatchDone /\ ~cur.transactional /\ ~cur.continue_on_error
    /\ cur.n = 3 /\ cur.failedAt = 2
    /\ resp.kind = "batch" /\ ~resp.success
    /\ db = dbBefore \cup {1}

\* C10: a batch sent with transactional=true is executed inside one
\* transaction or rejected: none of its statements is executed outside a
\* transaction.
C10_TransactionalMeansTransaction ==
    (cur.kind = "batch" /\ cur.transactional) =>
        \A j \in 1..Len(driverLog) : driverLog[j].call = "exec" => driverLog[j].inTx

----------------------------------------------------------------------------
(* Properties of the single paths *)

\* C4: when a read returns more rows than max_result_size, ExecuteQuery
\* fails with code 4007 and the response carries no row of the result.
C4_ResultSizeCap ==
    (pc = "done" /\ cur.kind = "query" /\ cur.rows > cfg.MaxResultSize) =>
        /\ ~resp.success
        /\ resp.code = SQLErrorResultSize
        /\ resp.data = <<>>

IsDeleteWithoutWhere(sql) ==
    /\ Len(sql) > 0
    /\ sql[1] = Kw("DELETE")
    /\ \A j \in 1..Len(sql) : sql[j] # Kw("WHERE")

\* C7: for a structured delete with an empty where the builder returns an
\* error and no SQL, and no DELETE without WHERE built from a structured
\* query reaches the engine, on the single paths and inside a batch.
C7_NoDeleteWithoutWhere ==
    /\ \A i \in 1..Len(queries) :
        queries[i].structured => ~IsDeleteWithoutWhere(queries[i].sql)
    /\ cur.wildcard =>
        /\ queries = <<>> /\ driverLog = <<>> /\ db = dbBefore
        /\ pc = "done" =>
            /\ ~resp.success
            /\ resp.message \in {"Request validation failed",
                                 "Batch request validation failed",
                                 "Query building failed"}

\* a batch holding a structured DELETE with an empty where was refused by
\* the builder
C7_Witness ==
    /\ BatchDone /\ cur.wildcard /\ cur.n = 3
    /\ resp.code = SQLErrorSyntax /\ resp.message = "Query building failed"
    /\ resp.details = <<"WHERE clause is required for DELETE operation">>

----------------------------------------------------------------------------
(* Batches: validation before execution, and the order of execution *)

\* the statements of the batch in hand the security validator refuses
Refused == {i \in 1..Len(queries) :
                IsErr(ValidateQuery(cfg, queries[i].sql, queries[i].params))}

\* C11: a batch that reaches the engine with batches enabled and holds a
\* statement the security validator refuses, for its text or for its own
\* params, never reaches the driver: no Begin, no Exec, nothing changed in
\* the database, and the error of the response names the index of the first
\* refused statement.
C11_ValidateAllBeforeExecution ==
    (cur.kind = "batch" /\ cfg.EnableBatch /\ Refused # {}) =>
        LET first == CHOOSE i \in Refused : \A j \in Refused : i <= j
        IN  /\ pc = "done"
            /\ driverLog = <<>>
            /\ tx = "none"
            /\ db = dbBefore
            /\ ~resp.success
            /\ Len(resp.details) >= 2
            /\ resp.details[1] = "security validation failed for query"
            /\ resp.details[2] = ToString(first - 1)

\* a transactional batch of three statements of which only the last is
\* refused, for its params, has been answered
C11_Witness ==
    /\ pc = "done" /\ cur.kind = "batch" /\ cur.transactional
    /\ cfg.EnableBatch /\ cfg.EnableTransactions
    /\ Len(queries) = 3 /\ Refused = {3}
    /\ queries[3].params = (1 :> -1)
    /\ "parameter validation failed" \in {resp.details[i] : i \in 1..Len(resp.details)}
    /\ driverLog = <<>>

\* the Exec calls of the driver log, in the order they were made
ExecCalls == SelectSeq(driverLog, LAMBDA c : c.call = "exec")

\* C12: in a batch, transactional or not, the j-th Exec the driver sees is
\* the one of operation j, it is made only after every earlier Exec has
\* returned without an error, and slot j of the engine's results and of the
\* response holds the result of operation j.
C12_InputOrderOneAtATime ==
    cur.kind = "batch" =>
        /\ \A j \in 1..Len(ExecCalls) : ExecCalls[j].idx = j
        /\ \A j \in 1..(Len(ExecCalls) - 1) : ExecCalls[j].ok
        /\ Len(results) <= Len(ExecCalls)
        /\ \A j \in 1..Len(results) : results[j] = rowsAffected(j)
        /\ (pc = "done" /\ resp.success) =>
                /\ Len(resp.results) = cur.n
                /\ \A j \in 1..cur.n :
                        /\ resp.results[j].index = j - 1
                        /\ resp.results[j].affected_rows = rowsAffected(j)

\* a committed transactional batch of three operations has been answered
C12_Witness ==
    /\ pc = "done" /\ cur.kind = "batch" /\ cur.useTx /\ tx = "committed"
    /\ cur.n = 3 /\ Len(ExecCalls) = 3
    /\ resp.success /\ Len(resp.results) = 3

----------------------------------------------------------------------------
(* Deadlines and failures of the driver *)

\* a driver call of the request in hand came back with the error of a
\* context whose deadline fired or that the caller cancelled: the response
\* details are the text of the error chain, which ends with the driver's
DeadlineFired ==
    /\ pc = "done"
    /\ \E i \in 1..Len(driverLog) : ~driverLog[i].ok
    /\ Len(resp.details) > 0
    /\ resp.details[Len(resp.details)] \in ContextErrors

\* C13: when the deadline fires or the caller cancels during a driver call
\* of ExecuteQuery, ExecuteSQL or ExecuteBatch, the response carries 4006.
C13_DeadlineGives4006 ==
    DeadlineFired => resp.code = SQLErrorTimeout

\* C14: a statement of a transactional batch that fails, by an error of the
\* driver or by a panic, is answered with a batch error response of code
\* 4005 (and the engine is ready for the next request once it is answered).
C14_TxFailureGives4005 ==
    (pc = "done" /\ cur.kind = "batch" /\ cur.useTx /\ cur.failedAt > 0) =>
        /\ resp.kind = "batch"
        /\ ~resp.success
        /\ resp.code = SQLErrorTransaction

----------------------------------------------------------------------------
(* What a refusal of the security validator looks like to the caller *)

\* the response in hand carries an error of the security validator whose
\* chain holds the message part cause
RefusedFor(cause) ==
    /\ pc = "done"
    /\ ~resp.success
    /\ \E i \in 1..Len(resp.details) :
            resp.details[i] \in {"security validation failed",
                                 "security validation failed for query"}
    /\ \E i \in 1..Len(resp.details) : resp.details[i] = cause

\* C15: a refusal by the security validator is answered 4003 for a table or
\* an action outside the allow-list, 4001 for a dangerous keyword or an
\* injection pattern, and 4002 for a violation of the parameters.
C15_RefusalCodes ==
    /\ (RefusedFor("table access denied") \/ RefusedFor("action not allowed"))
            => resp.code = SQLErrorPermission
    /\ (RefusedFor("dangerous keywords detected") \/ RefusedFor("SQL injection detected"))
            => resp.code = SQLErrorSyntax
    /\ RefusedFor("parameter validation failed") => resp.code = SQLErrorParams

\* the tables a statement references: the identifiers that follow FROM,
\* JOIN, INTO or UPDATE
TableRefs(sql) ==
    {ToLower(sql[i + 1].s) : i \in {j \in 1..(Len(sql) - 1) :
        /\ sql[j].k = "kw"
        /\ ToLower(sql[j].s) \in {"from", "join", "into", "update"}
        /\ sql[j + 1].k = "id"}}

\* statement i of the request in hand was passed to the driver
PassedToDriver(i) ==
    \E j \in 1..Len(driverLog) :
        driverLog[j].call \in {"query", "exec"} /\ driverLog[j].idx = i

\* C16: on the read, write and batch paths no statement that references a
\* table outside allowed_tables is passed to the driver, and the refusal is
\* answered with code 4003, message "Permission denied" and details that
\* name the table.
C16_ForeignTableRefused ==
    /\ \A i \in 1..Len(queries) :
            ~(TableRefs(queries[i].sql) \subseteq cfg.AllowedTables)
                => ~PassedToDriver(i)
    /\ RefusedFor("table access denied") =>
            /\ resp.code = SQLErrorPermission
            /\ resp.message = "Permission denied"
            /\ \E i \in 1..Len(resp.details) :
                    /\ resp.details[i] \notin cfg.AllowedTables
                    /\ \E k \in 1..Len(queries) :
                            resp.details[i] \in TableRefs(queries[k].sql)

----------------------------------------------------------------------------
(* Reads *)

\* the statement of the single request in hand passed both validators
Validated ==
    /\ Len(queries) = 1
    /\ ~IsErr(ValidateQueryStructure(queries[1].sql))
    /\ ~IsErr(ValidateQuery(cfg, queries[1].sql, queries[1].params))

\* the first word of the statement of the single request in hand
FirstWord == Lower(queries[1].sql[1])

\* C17: ExecuteQuery passes a validated statement to the driver exactly
\* when its first word is select or with; a statement that starts with
\* insert, update or delete is refused without a driver call.
C17_ReadsSelectOrWith ==
    (pc = "done" /\ cur.kind = "query" /\ Validated) =>
        (driverLog # <<>> <=> FirstWord \in {"select", "with"})

----------------------------------------------------------------------------
(* The error mapper *)

\* the text in hand hits no code of the backend's table and no pattern of it
Unmatched ==
    LET errMsg == LowerText(dberr)
    IN  CASE dbType = "postgres" ->
                CodeHits(pgErrorCodes, errMsg) = {} /\ PatternHits(pgPatterns, errMsg) = {}
          [] dbType = "oracle" ->
                /\ CodeHits(oracleErrorCodes, errMsg) = {}
                /\ PatternHits(oraclePatterns, errMsg) = {}
          [] OTHER -> PatternHits(genericPatterns, errMsg) = {}

\* C18: for postgres, oracle and any other backend MapError gives every
\* error a code from 4001 to 4007, and an error that hits no code and no
\* pattern of the backend gets 4001 with the original text, unchanged, in
\* details.
C18_MapErrorTotal ==
    mapped.done =>
        /\ mapped.code \in SQLErrorSyntax..SQLErrorResultSize
        /\ Unmatched => (mapped.code = SQLErrorSyntax /\ mapped.details = dberr)

\* an error with a capital letter that hits nothing has been mapped by the
\* mapper of a backend that is neither postgres nor oracle
C18_Witness ==
    /\ mapped.done /\ Unmatched
    /\ dbType = "mysql"
    /\ LowerText(dberr) # dberr
    /\ mapped.message = "Database error"

----------------------------------------------------------------------------
(* The HTTP status of a failed response *)

\* the handler has a failed response of the service in hand, for a request
\* it sent to the method that served it
FailedResponse ==
    /\ pc = "done" /\ cur.routed
    /\ resp.kind \in {"sql", "batch"} /\ ~resp.success

\* C19: the status of a failed response follows from its code: 4002 gives
\* 400, 4003 gives 403, 4004 gives 503, 4006 gives 408, 4007 gives 413, and
\* 4001 and 4005 give 500 on a write request and 400 on a read request.
C19_StatusByCode ==
    FailedResponse =>
        LET st == statusCode(resp)
        IN  /\ resp.code = SQLErrorParams     => st = 400
            /\ resp.code = SQLErrorPermission => st = 403
            /\ resp.code = SQLErrorConnection => st = 503
            /\ resp.code = SQLErrorTimeout    => st = 408
            /\ resp.code = SQLErrorResultSize => st = 413
            /\ resp.code \in {SQLErrorSyntax, SQLErrorTransaction} =>
                    st = IF cur.kind = "query" THEN 400 ELSE 500

----------------------------------------------------------------------------
(* Sort and pagination of a read *)

\* the driver of a postgres backend was given the statement of a read that
\* carries a sort and a pagination
SortedPageExecuted ==
    /\ pc = "done" /\ cur.kind = "query" /\ dbType = "postgres"
    /\ cur.sort.present /\ cur.sort.sort_by # ""
    /\ cur.pagination.present /\ cur.pagination.page_size > 0
    /\ Len(queries) = 1 /\ driverLog # <<>>

\* C20: the executed statement of a read with a sort and a pagination ends
\* with ORDER BY sort_by and the direction the client sent (DESC for "desc",
\* ASC for "asc" or none), then LIMIT page_size, then OFFSET
\* (page-1)*page_size unless page is 1.
C20_SortThenPage ==
    SortedPageExecuted =>
        LET q    == queries[1].sql
            pg   == cur.pagination
            dir  == IF cur.sort.sort_order = "desc" THEN "DESC" ELSE "ASC"
            tail == <<Kw("ORDER"), Kw("BY"), Id(cur.sort.sort_by), Kw(dir),
                      Kw("LIMIT"), Num(pg.page_size)>>
                    \o (IF pg.page > 1
                        THEN <<Kw("OFFSET"), Num((pg.page - 1) * pg.page_size)>>
                        ELSE <<>>)
        IN  /\ Len(q) >= Len(tail)
            /\ SubSeq(q, Len(q) - Len(tail) + 1, Len(q)) = tail


----------------------------------------------------------------------------
(* Sort and pagination over a statement with its own ORDER BY or LIMIT *)

\* the positions of the keyword word in sql
KwAt(sql, word) == {i \in 1..Len(sql) : sql[i].k = "kw" /\ sql[i].s = word}

\* the positions at which a row-limiting clause starts: LIMIT, FETCH
LimitAt(sql) == KwAt(sql, "LIMIT") \cup KwAt(sql, "FETCH")

\* a structured read with a sort or a pagination of the request was handed
\* to the engine
SortedStructuredRead ==
    /\ pc = "done" /\ cur.kind = "query"
    /\ Len(queries) = 1 /\ queries[1].structured
    /\ cur.sort.present /\ cur.pagination.present

\* C21: the statement made from a structured select with order_by or limit
\* and the sort and pagination of the request has one ORDER BY, one
\* row-limiting clause, and every sort key before that clause.
C21_MergedSortAndPage ==
    SortedStructuredRead =>
        LET q == queries[1].sql
        IN  /\ Cardinality(KwAt(q, "ORDER")) = 1
            /\ Cardinality(LimitAt(q)) = 1
            /\ \A l \in LimitAt(q) :
                    /\ \A o \in KwAt(q, "ORDER") : o < l
                    /\ \A i \in 1..Len(q) :
                            (q[i].k = "id" /\ q[i].s = cur.sort.sort_by) => i < l

----------------------------------------------------------------------------
(* The monitor's view of the attempts *)

\* the request in hand was answered after the service handed its statements
\* to the engine
EngineEntered == pc = "done" /\ Len(queries) > 0

\* C22: every attempt that entered the engine through ExecuteQuery,
\* ExecuteSQL or ExecuteBatch has given the monitor one StartQuery and then
\* one Finish, whether it succeeded or failed.
C22_MonitorStartFinish ==
    EngineEntered =>
        /\ Len(monLog) = 2
        /\ monLog[1] = "StartQuery"
        /\ monLog[2] \in {"Finish(true)", "Finish(false)"}

----------------------------------------------------------------------------
(* Structured queries that break the rules of their action *)

\* the structured query breaks a rule of its action: select with data,
\* insert without data or with where, group_by or having, update without
\* data, delete without where
BreaksActionRule(q) ==
    LET empty(m) == Cardinality(DOMAIN m) = 0
    IN  \/ q.action = "select" /\ ~empty(q.data)
        \/ q.action = "insert" /\ (empty(q.data) \/ ~empty(q.where)
                                    \/ Len(q.group_by) > 0 \/ ~empty(q.having))
        \/ q.action = "update" /\ empty(q.data)
        \/ q.action = "delete" /\ empty(q.where)

\* a single request with a structured query was answered
StructuredAnswered ==
    /\ pc = "done" /\ cur.kind \in {"query", "sql"} /\ cur.hasQuery

\* C23: a structured query that breaks a rule of its action is answered
\* with code 4002, and no statement is built for it or handed to the driver.
C23_ActionRulesGive4002 ==
    (StructuredAnswered /\ BreaksActionRule(cur.query)) =>
        /\ ~resp.success /\ resp.code = SQLErrorParams
        /\ queries = <<>> /\ driverLog = <<>>

----------------------------------------------------------------------------
(* The effective action of a statement that starts with WITH *)

SQLActions == {"select", "insert", "update", "delete"}

\* the first word of the statement that is select, insert, update or
\* delete, wherever it stands; "select" when there is none
FirstActionWord(sql) ==
    LET words == Fields(sql)
        acts  == {i \in 1..Len(words) : words[i].bare /\ words[i].core \in SQLActions}
    IN  IF acts = {} THEN "select"
        ELSE words[CHOOSE i \in acts : \A j \in acts : i <= j].core

\* a statement that starts with WITH has been validated
WithValidated ==
    /\ verdict.done /\ Len(vq) > 0 /\ Lower(vq[1]) = "with"

\* C24: for a statement that starts with WITH the validator takes the first
\* select, insert, update or delete word, at whatever position, as the
\* action, and refuses the statement when that action is not allowed.
C24_WithEffectiveAction ==
    WithValidated =>
        /\ verdict.action = FirstActionWord(vq)
        /\ FirstActionWord(vq) \notin cfg.AllowedActions => IsErr(verdict.err)

----------------------------------------------------------------------------
(* The order of the checks of ExecuteSQL *)

\* a single write was answered after its statement was handed to
\* SQLEngine.ExecuteSQL
WriteEntered == pc = "done" /\ cur.kind = "sql" /\ Len(queries) = 1

\* C26: ExecuteSQL checks the structure, then the security rules, then that
\* raw SQL is enabled; the first check that fails gives the error, and the
\* driver is called exactly when all three pass.
C26_ExecuteSQLCheckOrder ==
    WriteEntered =>
        LET sOk == ~IsErr(ValidateQueryStructure(queries[1].sql))
            vOk == ~IsErr(ValidateQuery(cfg, queries[1].sql, queries[1].params))
            rOk == cfg.EnableRawSQL
        IN  /\ driverLog # <<>> <=> (sOk /\ vOk /\ rOk)
            /\ ~rOk => db = dbBefore
            /\ ~sOk => resp.details[1] = "query structure validation failed"
            /\ (sOk /\ ~vOk) => resp.details[1] = "security validation failed"
            /\ (sOk /\ vOk /\ ~rOk) =>
                    resp.details = <<"raw SQL execution is disabled">>

\* with raw SQL disabled, a statement that both validators refuse is
\* answered with the error of the structure check
C26_Witness ==
    /\ WriteEntered /\ ~cfg.EnableRawSQL
    /\ IsErr(ValidateQueryStructure(queries[1].sql))
    /\ IsErr(ValidateQuery(cfg, queries[1].sql, queries[1].params))
    /\ resp.details[1] = "query structure validation failed"
    /\ driverLog = <<>>

----------------------------------------------------------------------------
(* Validation before the driver *)

\* C27: every statement passed to the driver, on the read, write and batch
\* paths, is accepted by ValidateQuery with the text and the parameters it
\* is executed with, the appended sort and pagination included.
C27_ValidatedBeforeDriver ==
    \A j \in 1..Len(driverLog) :
        driverLog[j].call \in {"query", "exec"} =>
            /\ driverLog[j].idx \in 1..Len(queries)
            /\ ~IsErr(ValidateQuery(cfg, queries[driverLog[j].idx].sql,
                                    queries[driverLog[j].idx].params))

\* a read with a sort and a pagination reached the driver with the ORDER BY
\* and LIMIT text in its statement
C27_Witness ==
    /\ pc = "done" /\ cur.kind = "query" /\ cur.sort.present
    /\ PassedToDriver(1)
    /\ KwAt(queries[1].sql, "ORDER") # {} /\ LimitAt(queries[1].sql) # {}

----------------------------------------------------------------------------
(* MapError called twice *)

\* the code table of the backend
BackendCodes ==
    CASE dbType = "postgres" -> pgErrorCodes
      [] dbType = "oracle"   -> oracleErrorCodes
      [] OTHER               -> {}

\* C28: a text that holds a known backend code is mapped by that code, not
\* by a pattern, and a second call of MapError on the same error gives the
\* code the first call gave.
C28_MapErrorDeterministic ==
    /\ (mapped.done /\ CodeHits(BackendCodes, LowerText(dberr)) # {}) =>
            mapped.code \in {h.code : h \in CodeHits(BackendCodes, LowerText(dberr))}
    /\ mapped.again # 0 => mapped.again = mapped.code

----------------------------------------------------------------------------
(* The deadline of an attempt *)

\* C25: the deadline of an attempt is the time it entered the engine plus
\* max_query_time, so that no driver call returns a result at or after
\* that time, and every driver call of the attempt is made under that one
\* deadline.
C25_DeadlineFixedAtEntry ==
    /\ timer.deadline # NoDeadline =>
            timer.deadline = timer.entered + MaxQueryTime
    /\ timer.lastOk # NoDeadline => timer.lastOk < timer.entered + MaxQueryTime
    /\ Cardinality(timer.under) <= 1

----------------------------------------------------------------------------
(* The preview of a statement *)

IsQuote(c) == c \in {"'", "\""}

\* text from the run after the first run of the quote q on; nothing when the
\* literal is not closed
RECURSIVE AfterClosing(_, _)
AfterClosing(text, q) ==
    IF Len(text) = 0 THEN <<>>
    ELSE IF Head(text).c = q THEN Tail(text)
    ELSE AfterClosing(Tail(text), q)

\* the statement with every string literal, quotes included, replaced by ?
RECURSIVE Masked(_)
Masked(text) ==
    IF Len(text) = 0 THEN <<>>
    ELSE IF Head(text).n = 0 THEN Masked(Tail(text))
    ELSE IF IsQuote(Head(text).c)
         THEN <<Run("?", 1)>>
              \o Masked(IF Head(text).n >= 2
                        THEN <<Run(Head(text).c, Head(text).n - 2)>> \o Tail(text)
                        ELSE AfterClosing(Tail(text), Head(text).c))
    ELSE <<Head(text)>> \o Masked(Tail(text))

\* C29: the preview is at most 200 characters long, the preview of a
\* statement of at most 200 characters is the statement with every string
\* literal replaced by ?, and two statements that differ only inside their
\* string literals have the same preview.
C29_PreviewHidesLiterals ==
    sani.done =>
        /\ TextLen(sani.pa) <= PreviewLimit
        /\ TextLen(sani.a) <= PreviewLimit =>
                sani.pa = Normalize(Masked(sani.a))
        /\ Normalize(Masked(sani.a)) = Normalize(Masked(sani.b)) =>
                sani.pa = sani.pb

----------------------------------------------------------------------------
(* Query ids *)

\* C30: no two attempts are given the same query id, whatever the clock
\* returned to them.
C30_QueryIdsUnique ==
    \A i, j \in 1..Len(mon.ids) : i # j => mon.ids[i] # mon.ids[j]

============================================================================
